---------------------------- MODULE Spec2Model ----------------------------
(***************************************************************************)
(* A model of the map-synthesis core of dotmaps (src/src/App.tsx, the part *)
(* that is imageToGrid.ts): hash2d, pickWaterGradient, the colour sets     *)
(* built from the palette configuration, computeDistanceField, imageToGrid *)
(* and fixGridLimits.                                                      *)
(*                                                                         *)
(* Numbers.  The source computes with IEEE doubles and 32-bit integers;    *)
(* TLC has 32-bit signed integers only.  32-bit words are kept as pairs of *)
(* 16-bit limbs <<hi, lo>>, and fractions are kept exactly as a numerator  *)
(* over a stated denominator.  The exact value and the double differ by    *)
(* rounding only (about 1e-16).  Channel averages are kept as sum over     *)
(* count, without the rounding of the Float32Array that holds them.  The   *)
(* colour distances of closestLandColor and hslDistance are computed from  *)
(* h, s and l rounded down to thousandths: they decide which land colour   *)
(* is nearest, never whether the colour picked is a land colour.           *)
(***************************************************************************)
EXTENDS Integers, Sequences, FiniteSets, TLC

\* ---- bounds of the model ------------------------------------------------
\* largest grid coordinate the hash specification draws (besides ProbeCoords)
MaxCoord == 3
\* the blend scalar t is drawn from {0/TDen, ..., TDen/TDen}
TDen == 6

Min2(a, b) == IF a <= b THEN a ELSE b
Max2(a, b) == IF a >= b THEN a ELSE b
Abs(a) == IF a < 0 THEN 0 - a ELSE a

\* ---- 32-bit words as <<hi, lo>>, 16 bits each ----------------------------
Pow16 == 256 * 256

\* ToInt32 / ToUint32 of an integer: its value modulo 2^32
ToWord(x) == <<(x \div Pow16) % Pow16, x % Pow16>>

\* the exclusive or of two numbers of 1, 2, 4, 8 and 16 bits
Xor1(a, b) == (a + b) % 2
Xor2(a, b) == Xor1(a % 2, b % 2) + 2 * Xor1(a \div 2, b \div 2)
Xor4(a, b) == Xor2(a % 4, b % 4) + 4 * Xor2(a \div 4, b \div 4)
Xor8(a, b) == Xor4(a % 16, b % 16) + 16 * Xor4(a \div 16, b \div 16)
Xor16(a, b) == Xor8(a % 256, b % 256) + 256 * Xor8(a \div 256, b \div 256)

\* a ^ b
XorW(a, b) == <<Xor16(a[1], b[1]), Xor16(a[2], b[2])>>

\* a >>> 13
Shr13(a) == <<a[1] \div 8192, (a[1] % 8192) * 8 + a[2] \div 8192>>

\* a >>> 16
Shr16(a) == <<0, a[1]>>

\* (a + b) modulo 2^32
AddW(a, b) ==
  LET lo == a[2] + b[2]
  IN  <<(a[1] + b[1] + lo \div Pow16) % Pow16, lo % Pow16>>

\* the full product of two 16-bit limbs, as a word (no step exceeds 2^31)
Mul16(a, b) ==
  LET p0 == (a % 256) * b
      p1 == (a \div 256) * b
      s  == p0 + (p1 % 256) * 256
  IN  <<s \div Pow16 + p1 \div 256, s % Pow16>>

\* Math.imul(a, b): the low 32 bits of the product
Imul(a, b) ==
  LET ll == Mul16(a[2], b[2])
      lh == Mul16(a[2], b[1])
      hl == Mul16(a[1], b[2])
  IN  <<(ll[1] + lh[2] + hl[2]) % Pow16, ll[2]>>

\* the three multipliers of hash2d, as words
HashMulX == <<5718, 26545>>      \* 374761393
HashMulY == <<10196, 60207>>     \* 668265263
HashMulZ == <<19441, 40801>>     \* 1274126177

\* the divisor of hash2d, 0x7fffffff
HashDen == 2147483647

\* hash2d(x, y) * 0x7fffffff: the numerator h & 0x7fffffff of the result
hash2dNum(x, y) ==
  LET h0 == AddW(Imul(ToWord(x), HashMulX), Imul(ToWord(y), HashMulY))
      h1 == Imul(XorW(h0, Shr13(h0)), HashMulZ)
      h2 == XorW(h1, Shr16(h1))
  IN  (h2[1] % 32768) * Pow16 + h2[2]

\* num / HashDen < p / q, for 0 <= p <= q, without leaving 32 bits
HashLess(num, p, q) ==
  LET a == HashDen \div q
      b == HashDen % q
      k == num - p * a
  IN  IF k < 0 THEN TRUE
      ELSE IF k >= q THEN FALSE
      ELSE k * q < p * b

\* pickWaterGradient(t, x, y) with t = tn / td: the index gi into WATER_GRADIENT
pickWaterGradientIndex(tn, td, x, y) ==
  LET sn    == Max2(0, Min2(3 * td, 3 * tn))      \* tScaled * td
      lower == Min2(2, sn \div td)
      upper == lower + 1
      fn    == sn - lower * td                    \* frac * td
  IN  IF HashLess(hash2dNum(x, y), fn, td) THEN upper ELSE lower


\* ---- the palette configuration (config.colors of dotmaps.config.json) ----
VARIABLES
  config,        \* config.colors: a sequence of [name, hex, quantity]
  core           \* the module of the colour sets: "unloaded", "loaded" or "rejected"

cfgVars == <<config, core>>

\* a colour is its hex number 0xRRGGBB; an empty cell is Null; a missing map
\* entry or array element is Undefined (TLC compares numbers with numbers only,
\* so the values that are no colour are negative numbers)
Null == 0 - 1
Undefined == 0 - 2

\* the colours of the model's palette, in config order: the four water names
\* the source looks up, and three land colours
PaletteColors ==
  << [name |-> "black",      hex |-> 332573],      \* #05131D
     [name |-> "dark blue",  hex |-> 668771],      \* #0A3463
     [name |-> "turquoise",  hex |-> 36763],       \* #008F9B
     [name |-> "light blue", hex |-> 10470377],    \* #9FC3E9
     [name |-> "white",      hex |-> 15396071],    \* #EAECE7
     [name |-> "green",      hex |-> 2324545],     \* #237841
     [name |-> "red",        hex |-> 13308448] >>  \* #CB1220

\* the supplies the model runs with: one dot of each colour, and a supply in
\* which dark blue, light blue and red are out of stock
QuantityProfiles ==
  { [i \in 1..7 |-> 1],
    <<1, 0, 1, 0, 1, 1, 0>> }

ConfigWith(q) ==
  [i \in 1..Len(PaletteColors) |->
     [name |-> PaletteColors[i].name, hex |-> PaletteColors[i].hex,
      quantity |-> q[i]]]

\* the configurations a valid dotmaps.config.json gives
ValidConfigs == { ConfigWith(q) : q \in QuantityProfiles }

Range(f) == { f[i] : i \in DOMAIN f }

\* colorByName.get(name)
colorByName(name) ==
  IF \E i \in DOMAIN config : config[i].name = name
  THEN LET i == CHOOSE j \in DOMAIN config :
                  /\ config[j].name = name
                  /\ \A k \in DOMAIN config : config[k].name = name => k <= j
       IN  config[i].hex
  ELSE Undefined

WATER_GRADIENT ==
  << colorByName("black"), colorByName("dark blue"),
     colorByName("turquoise"), colorByName("light blue") >>

\* the set of the four lookups, .filter(Boolean)
WATER_HEXES == Range(WATER_GRADIENT) \ {Undefined}

LAND_HEXES == { config[i].hex : i \in DOMAIN config } \ WATER_HEXES

\* limits.get(hex) ?? 0
limits(hex) ==
  IF \E i \in DOMAIN config : config[i].hex = hex
  THEN LET i == CHOOSE j \in DOMAIN config :
                  /\ config[j].hex = hex
                  /\ \A k \in DOMAIN config : config[k].hex = hex => k <= j
       IN  config[i].quantity
  ELSE 0

\* the palettes a configuration file may give: the model's palette without
\* the entries at the positions dropped
DroppedSets == { {}, {1}, {4}, {2, 3}, {5, 6, 7} }

AnyConfigs ==
  { SelectSeq(ConfigWith([i \in 1..7 |-> 1]),
              LAMBDA c : \A i \in d : PaletteColors[i].name /= c.name) : d \in DroppedSets }

\* lines 528-561: the module evaluates its colour sets; no statement of it
\* looks at what the lookups returned or throws
LoadCore ==
  /\ core = "unloaded"
  /\ core' = "loaded"
  /\ UNCHANGED config

\* ---- colour space -------------------------------------------------------
\* the three channels of a hex colour
hexToRgb(n) == << (n \div 65536) % 256, (n \div 256) % 256, n % 256 >>

\* a channel value is carried as a numerator over a denominator den shared by
\* the three channels (a box average is sum / count): r = R / den
ChanMax(den) == 255 * den

\* rgbToHsl, exactly: h = hn / hd degrees, s = sn / sd, l = ln / ld
rgbToHsl(R, G, B, den) ==
  LET mx == Max2(R, Max2(G, B))
      mn == Min2(R, Min2(G, B))
      d  == mx - mn
  IN  IF mx = mn
      THEN [hn |-> 0, hd |-> 1, sn |-> 0, sd |-> 1, ln |-> mx + mn, ld |-> 2 * ChanMax(den)]
      ELSE [hn |-> IF mx = R THEN 60 * (G - B) + (IF G < B THEN 360 * d ELSE 0)
                   ELSE IF mx = G THEN 60 * (B - R) + 120 * d
                   ELSE 60 * (R - G) + 240 * d,
            hd |-> d,
            sn |-> d,
            sd |-> IF mx + mn > ChanMax(den) THEN 2 * ChanMax(den) - mx - mn ELSE mx + mn,
            ln |-> mx + mn,
            ld |-> 2 * ChanMax(den)]

\* a fraction in thousandths, rounded down: the precision the colour
\* distances are compared at
Milli(n, d) == (n * 1000) \div d

\* h / 360, s and l of an exact HSL triple, in thousandths
hslMilli(c) ==
  [h |-> (c.hn * 1000) \div (c.hd * 360), s |-> Milli(c.sn, c.sd), l |-> Milli(c.ln, c.ld)]

\* Math.min(|h1 - h2|, 360 - |h1 - h2|) / 180, in thousandths
hueDiffMilli(h1, h2) == 2 * Min2(Abs(h1 - h2), 1000 - Abs(h1 - h2))

\* hslDistance, in millionths
hslDistance(a, b) ==
  LET dh   == hueDiffMilli(a.h, b.h)
      ds   == a.s - b.s
      dl   == a.l - b.l
      avgS == (a.s + b.s) \div 2
  IN  (dh * dh * avgS) \div 1000 + ds * ds + dl * dl

\* PALETTE_HSL: every colour with its h, s, l (and the r, g, b LAND_PALETTE
\* adds), in config order
PALETTE_HSL ==
  [i \in 1..Len(config) |->
     LET rgb == hexToRgb(config[i].hex)
         m   == hslMilli(rgbToHsl(rgb[1], rgb[2], rgb[3], 1))
     IN  [hex |-> config[i].hex, h |-> m.h, s |-> m.s, l |-> m.l,
          r |-> rgb[1], g |-> rgb[2], b |-> rgb[3]]]

\* the palette without the filter to the land colours
landPaletteUnfiltered == PALETTE_HSL

\* PALETTE_HSL filtered to the land colours
LAND_PALETTE == SelectSeq(PALETTE_HSL, LAMBDA c : c.hex \in LAND_HEXES)

TypeError == 0 - 3

\* closestLandColor(r, g, b) with r = R / den: the first land colour at the
\* least distance; LAND_PALETTE[0].hex throws when the palette is empty
closestLandColor(R, G, B, den) ==
  LET c  == rgbToHsl(R, G, B, den)
      m  == hslMilli(c)
      achromatic ==
        \/ c.sn * 100 < 8 * c.sd
        \/ (c.sn * 4 < c.sd /\ c.ln * 4 > 3 * c.ld)
      dist(pc) ==
        IF achromatic
        THEN \* (r-pr)^2 + (g-pg)^2 + (b-pb)^2 times den^2 (the source divides
             \* every candidate's sum by the same 255 * 255 * 3)
             (R - den * pc.r) * (R - den * pc.r) + (G - den * pc.g) * (G - den * pc.g)
               + (B - den * pc.b) * (B - den * pc.b)
        ELSE LET boostedS == Min2(1000, (m.s * 5) \div 2)
                 dh == hueDiffMilli(m.h, pc.h)
                 dl == m.l - pc.l
                 ds == boostedS - pc.s
             IN  dh * dh * 3 + (dl * dl) \div 2 + (ds * ds * 15) \div 100
                 + (IF pc.s < 150 THEN m.s * m.s * 8 ELSE 0)
      best[k \in 0..Len(LAND_PALETTE)] ==
        \* <<bestDist, bestHex>> after the first k palette entries
        IF k = 0 THEN << -1, LAND_PALETTE[1].hex >>
        ELSE LET prev == best[k - 1]
                 dk   == dist(LAND_PALETTE[k])
             IN  IF prev[1] = -1 \/ dk < prev[1]
                 THEN << dk, LAND_PALETTE[k].hex >> ELSE prev
  IN  IF Len(LAND_PALETTE) = 0 THEN TypeError
      ELSE best[Len(LAND_PALETTE)][2]

\* isWaterPixel without its third rule
isWaterPixelNoTint(R, G, B, den) ==
  LET c == rgbToHsl(R, G, B, den)
  IN  \/ c.ln * 100 < 15 * c.ld
      \/ /\ c.hn >= 170 * c.hd
         /\ c.hn <= 260 * c.hd
         /\ c.sn * 100 * c.ld >
              c.sd * (15 * c.ld + 80 * Max2(0, c.ln - ChanMax(den)))

\* isWaterPixel(r, g, b) with r = R / den
isWaterPixel(R, G, B, den) ==
  LET c == rgbToHsl(R, G, B, den)
  IN  \/ c.ln * 100 < 15 * c.ld
      \/ /\ c.hn >= 170 * c.hd
         /\ c.hn <= 260 * c.hd
         /\ c.sn * 100 * c.ld >
              c.sd * (15 * c.ld + 80 * Max2(0, c.ln - ChanMax(den)))
      \/ /\ c.ln * 100 < 45 * c.ld
         /\ c.sn * 5 < c.sd
         /\ B > R


\* ---- computeDistanceField (breadth-first distance transform) -------------
VARIABLES
  mask,          \* the boolean mask, indexed by the flat index 0 .. w*h-1
  dfW, dfH,      \* w, h
  fromTrue,      \* the mask value whose cells are the sources
  dist,          \* the Float32Array being filled
  queue,         \* every index pushed so far, in push order
  head,          \* how many entries of queue have been popped
  dfPc           \* "idle", "loop" or "done"

dfVars == <<mask, dfW, dfH, fromTrue, dist, queue, head, dfPc>>

\* the largest number of cells of a mask of the distance-field specification
MaxDfCells == 9

\* the fill value of the Float32Array
Infinity == 0 - 1

\* a < b for values that are a number or Infinity
Lt(a, b) == a /= Infinity /\ (b = Infinity \/ a < b)

\* lines 616-624: fill with Infinity, set the sources to 0 and enqueue them
dfStart(m, w, h, ft) ==
  LET src == SelectSeq([k \in 1..(w * h) |-> k - 1], LAMBDA i : m[i] = ft)
  IN  [dist  |-> [i \in 0..(w * h - 1) |-> IF m[i] = ft THEN 0 ELSE Infinity],
       queue |-> src,
       head  |-> 0]

\* the neighbours with the right neighbour taken across the end of a row
dfNeighborsWrap(idx, w, h) ==
  LET cx == idx % w
      cy == (idx - cx) \div w
  IN  << IF cy > 0 THEN idx - w ELSE -1,
         IF cy < h - 1 THEN idx + w ELSE -1,
         IF cx > 0 THEN idx - 1 ELSE -1,
         IF idx + 1 < w * h THEN idx + 1 ELSE -1 >>

\* the four neighbours of idx in the order the source visits them; -1: none
dfNeighbors(idx, w, h) ==
  LET cx == idx % w
      cy == (idx - cx) \div w
  IN  << IF cy > 0 THEN idx - w ELSE -1,
         IF cy < h - 1 THEN idx + w ELSE -1,
         IF cx > 0 THEN idx - 1 ELSE -1,
         IF cx < w - 1 THEN idx + 1 ELSE -1 >>

\* one iteration that also enqueues a neighbour whose distance does not improve
dfStepLoose(st, w, h) ==
  LET idx == st.queue[st.head + 1]
      nd  == st.dist[idx] + 1
      nb  == dfNeighbors(idx, w, h)
      relax[k \in 0..4] ==
        IF k = 0 THEN [dist |-> st.dist, queue |-> st.queue]
        ELSE LET prev == relax[k - 1]
                 ni   == nb[k]
             IN  IF ni >= 0 /\ ~Lt(prev.dist[ni], nd)
                 THEN [dist  |-> [prev.dist EXCEPT ![ni] = nd],
                       queue |-> Append(prev.queue, ni)]
                 ELSE prev
  IN  [dist |-> relax[4].dist, queue |-> relax[4].queue, head |-> st.head + 1]

\* lines 628-642: one iteration of the while loop
dfStep(st, w, h) ==
  LET idx == st.queue[st.head + 1]
      nd  == st.dist[idx] + 1
      nb  == dfNeighbors(idx, w, h)
      relax[k \in 0..4] ==
        IF k = 0 THEN [dist |-> st.dist, queue |-> st.queue]
        ELSE LET prev == relax[k - 1]
                 ni   == nb[k]
             IN  IF ni >= 0 /\ Lt(nd, prev.dist[ni])
                 THEN [dist  |-> [prev.dist EXCEPT ![ni] = nd],
                       queue |-> Append(prev.queue, ni)]
                 ELSE prev
  IN  [dist |-> relax[4].dist, queue |-> relax[4].queue, head |-> st.head + 1]

RECURSIVE dfRun(_, _, _)
dfRun(st, w, h) ==
  IF st.head < Len(st.queue) THEN dfRun(dfStep(st, w, h), w, h) ELSE st

\* computeDistanceField(mask, w, h, fromTrue)
computeDistanceField(m, w, h, ft) == dfRun(dfStart(m, w, h, ft), w, h).dist

\* computeEdgeDistance(w, h)
computeEdgeDistance(w, h) ==
  [i \in 0..(w * h - 1) |->
     LET x == i % w
         y == i \div w
     IN  Min2(Min2(x, y), Min2(w - 1 - x, h - 1 - y))]

DfIdle ==
  /\ mask = <<>> /\ dfW = 0 /\ dfH = 0 /\ fromTrue = FALSE
  /\ dist = <<>> /\ queue = <<>> /\ head = 0 /\ dfPc = "off"

\* a call of computeDistanceField with any mask of at most maxCells cells
DfInitWith(maxCells) ==
  /\ \E w \in 1..maxCells, h \in 1..maxCells :
       /\ w * h <= maxCells
       /\ dfW = w /\ dfH = h
       /\ mask \in [0..(w * h - 1) -> BOOLEAN]
  /\ fromTrue \in BOOLEAN
  /\ dist = <<>> /\ queue = <<>> /\ head = 0 /\ dfPc = "idle"

DfInit == DfInitWith(MaxDfCells)

DfCall ==
  /\ dfPc = "idle"
  /\ LET st == dfStart(mask, dfW, dfH, fromTrue)
     IN  dist' = st.dist /\ queue' = st.queue /\ head' = st.head
  /\ dfPc' = "loop"
  /\ UNCHANGED <<mask, dfW, dfH, fromTrue>>

DfLoop ==
  /\ dfPc = "loop"
  /\ head < Len(queue)
  /\ LET st == dfStep([dist |-> dist, queue |-> queue, head |-> head], dfW, dfH)
     IN  dist' = st.dist /\ queue' = st.queue /\ head' = st.head
  /\ UNCHANGED <<mask, dfW, dfH, fromTrue, dfPc>>

DfReturn ==
  /\ dfPc = "loop"
  /\ head >= Len(queue)
  /\ dfPc' = "done"
  /\ UNCHANGED <<mask, dfW, dfH, fromTrue, dist, queue, head>>


\* ---- fixGridLimits -------------------------------------------------------
VARIABLES
  heap,            \* the grid arrays that exist, by reference
  grid,            \* the argument of fixGridLimits: a reference into heap
  newGrid,         \* the copy the function writes to: a reference, or Null
  distToLand, distToEdge, maxLandDist, maxEdgeDist,
  colorPositions,  \* the Map hex -> positions, as <<[hex, positions]>> in insertion order
  remaining,       \* the Map hex -> remaining budget
  overColors,      \* the over-limit colours, sorted
  oc,              \* the position of the for-loop over overColors (1-based)
  excess,          \* the excess positions of overColors[oc] still to reassign
  result,          \* the reference returned, or Null while running
  fxPc             \* "idle", "color", "cell", "return" or "done"

fxVars == <<heap, grid, newGrid, distToLand, distToEdge, maxLandDist, maxEdgeDist,
            colorPositions, remaining, overColors, oc, excess, result, fxPc>>

\* the largest number of cells of a grid passed to fixGridLimits
MaxCells == 3

\* a value JavaScript treats as false in `if (!hex)`
Falsy(v) == v = Null \/ v = Undefined

gridH(g) == Len(g)
gridW(g) == IF Len(g) = 0 THEN 0 ELSE Len(g[1])
cellAt(g, r, c) == g[r + 1][c + 1]
cellAtIdx(g, idx) == cellAt(g, idx \div gridW(g), idx % gridW(g))

\* const newGrid = grid: the same array under a second name
copyGridAlias(hp, ref) == [heap |-> hp, ref |-> ref]

\* grid.map((row) => [...row]): a new array with the same cells
copyGrid(hp, ref) ==
  LET fresh == 1 + Cardinality(DOMAIN hp)
  IN  [heap |-> [k \in DOMAIN hp \cup {fresh} |-> IF k = fresh THEN hp[ref] ELSE hp[k]],
       ref  |-> fresh]

\* a write that fills the whole row of the cell
writeRow(hp, ref, idx, v) ==
  LET w == gridW(hp[ref])
  IN  [hp EXCEPT ![ref][(idx \div w) + 1] = [c \in 1..w |-> v]]

\* newGrid[row][col] = v
writeCell(hp, ref, idx, v) ==
  LET w == gridW(hp[ref])
  IN  [hp EXCEPT ![ref][(idx \div w) + 1][(idx % w) + 1] = v]

\* a stable sort (Array.prototype.sort) by a strict weak order before(a, b)
stableSort(s, before(_, _)) ==
  LET n == Len(s)
      rank(i) == Cardinality({ j \in 1..n :
                    \/ before(s[j], s[i])
                    \/ (~before(s[i], s[j]) /\ j < i) })
  IN  [k \in 1..n |-> s[CHOOSE i \in 1..n : rank(i) = k - 1]]

\* lines 782-788
cellIsWaterOf(g) ==
  [i \in 0..(gridW(g) * gridH(g) - 1) |->
     cellAtIdx(g, i) /= Null /\ cellAtIdx(g, i) \in WATER_HEXES]

\* the largest finite land distance of a water cell, starting from 0
maxLandDistFromZero(isWater, dl) ==
  LET ds == { dl[i] : i \in { j \in DOMAIN dl : isWater[j] /\ dl[j] /= Infinity } }
  IN  IF ds = {} THEN 0 ELSE CHOOSE m \in ds : \A d \in ds : d <= m

\* lines 793-797: the largest finite land distance of a water cell, at least 1
maxLandDistOf(isWater, dl) ==
  LET ds == { dl[i] : i \in { j \in DOMAIN dl : isWater[j] /\ dl[j] /= Infinity } }
  IN  IF ds = {} THEN 1 ELSE Max2(1, CHOOSE m \in ds : \A d \in ds : d <= m)

maxEdgeDistOf(de) ==
  LET ds == Range(de)
  IN  IF ds = {} THEN 1 ELSE Max2(1, CHOOSE m \in ds : \A d \in ds : d <= m)

\* lines 800-810: the colours in order of first appearance, each with its
\* positions (flat indices) in row-major order
colorPositionsOf(g) ==
  LET n == gridW(g) * gridH(g)
      used == SelectSeq([k \in 1..n |-> k - 1], LAMBDA i : ~Falsy(cellAtIdx(g, i)))
      first == SelectSeq(used, LAMBDA i :
                 \A j \in 0..(i - 1) : cellAtIdx(g, j) /= cellAtIdx(g, i))
  IN  [k \in 1..Len(first) |->
         [hex |-> cellAtIdx(g, first[k]),
          positions |-> SelectSeq(used, LAMBDA i : cellAtIdx(g, i) = cellAtIdx(g, first[k]))]]

positionsOf(cp, hex) ==
  (CHOOSE e \in Range(cp) : e.hex = hex).positions

\* the budget seeded with the quantities, the cells in the grid not counted
remainingUncounted(cp) ==
  [hex \in { config[i].hex : i \in DOMAIN config } \cup { e.hex : e \in Range(cp) } |->
     limits(hex)]

\* lines 812-826: the remaining budget after the within-limit colours are counted
remainingOf(cp) ==
  [hex \in { config[i].hex : i \in DOMAIN config } \cup { e.hex : e \in Range(cp) } |->
     IF \E e \in Range(cp) : e.hex = hex
     THEN LET n == Len(positionsOf(cp, hex))
          IN  IF n <= limits(hex) THEN limits(hex) - n ELSE 0
     ELSE limits(hex)]

\* remaining.get(hex) ?? 0
remainingGet(rem, hex) == IF hex \in DOMAIN rem THEN rem[hex] ELSE 0

\* limits.get(hex) ?? 1, the divisor of the usage ratio
ratioLimit(hex) ==
  IF \E i \in DOMAIN config : config[i].hex = hex THEN limits(hex) ELSE 1

\* aRatio > bRatio for ratio = count / limit, where x / 0 is Infinity
ratioGreater(ca, la, cb, lb) ==
  IF la = 0 THEN lb /= 0
  ELSE IF lb = 0 THEN FALSE
  ELSE ca * lb > cb * la

\* the over-limit colours left in their order of first appearance
overColorsUnsorted(cp) ==
  SelectSeq([k \in 1..Len(cp) |-> cp[k].hex],
            LAMBDA hex : Len(positionsOf(cp, hex)) > limits(hex))

\* lines 816-834: the over-limit colours, most constrained first
overColorsOf(cp) ==
  LET over == SelectSeq([k \in 1..Len(cp) |-> cp[k].hex],
                        LAMBDA hex : Len(positionsOf(cp, hex)) > limits(hex))
      before(a, b) == ratioGreater(Len(positionsOf(cp, a)), ratioLimit(a),
                                   Len(positionsOf(cp, b)), ratioLimit(b))
  IN  stableSort(over, before)

\* landNorm * maxLandDist and edgeNorm * maxEdgeDist of a cell
landNormNum(dl, mL, idx) == IF dl[idx] /= Infinity THEN dl[idx] ELSE mL
edgeNormNum(de, idx) == de[idx]

\* the priority with the formulas of turquoise and dark blue exchanged
scoreAtSwapped(hex, ln, en, row, col, mL, mE) ==
  LET jit == hash2dNum(row, col)
  IN  IF hex \in WATER_HEXES
      THEN IF hex = colorByName("light blue")
             THEN << 100 * mE * (mL - ln), jit, mL * mE >>
           ELSE IF hex = colorByName("dark blue")
             THEN << 85 * (mL - ln) * mE + 15 * en * mL, jit, mL * mE >>
           ELSE IF hex = colorByName("turquoise")
             THEN << 100 * mL * mE - mE * Abs(100 * ln - 35 * mL), jit, mL * mE >>
           ELSE << 70 * ln * mE + 30 * (mE - en) * mL, jit, mL * mE >>
      ELSE << 0, jit, mL * mE >>

\* lines 849-871: the priority of a position of colour hex at (row, col) with
\* landNorm = ln / mL and edgeNorm = en / mE, as
\* <<main part * 100 * mL * mE, hash2d numerator, mL * mE>>; the priority is
\* the main part plus jitter = hash2d * 0.0001
scoreAt(hex, ln, en, row, col, mL, mE) ==
  LET jit == hash2dNum(row, col)
  IN  IF hex \in WATER_HEXES
      THEN IF hex = colorByName("light blue")
             THEN << 100 * mE * (mL - ln), jit, mL * mE >>
           ELSE IF hex = colorByName("turquoise")
             THEN << 85 * (mL - ln) * mE + 15 * en * mL, jit, mL * mE >>
           ELSE IF hex = colorByName("dark blue")
             THEN << 100 * mL * mE - mE * Abs(100 * ln - 35 * mL), jit, mL * mE >>
           ELSE << 70 * ln * mE + 30 * (mE - en) * mL, jit, mL * mE >>
      ELSE << 0, jit, mL * mE >>

\* the priority of the position with flat index idx
priorityOf(hex, idx, w, dl, de, mL, mE) ==
  scoreAt(hex, landNormNum(dl, mL, idx), edgeNormNum(de, idx), idx \div w, idx % w, mL, mE)

\* k * HashDen >= d * m for 0 <= k, 0 <= d <= HashDen, 0 < m, without a
\* product beyond 32 bits: HashDen = q * m + r
timesHashAtLeast(k, d, m) ==
  k > m \/ k * (HashDen \div m) + (k * (HashDen % m)) \div m >= d

\* k * HashDen > d * m, likewise
timesHashOver(k, d, m) ==
  \/ k > m
  \/ k * (HashDen \div m) + (k * (HashDen % m)) \div m > d
  \/ /\ k * (HashDen \div m) + (k * (HashDen % m)) \div m = d
     /\ (k * (HashDen % m)) % m > 0

\* b.priority - a.priority < 0 for a = p, b = q: the sums of main part and
\* jitter compared exactly,
\*   (p[1] - q[1]) / (100 * m) > (q[2] - p[2]) / (HashDen * 10000),  m = mL * mE
priorityGreater(p, q) ==
  LET m  == p[3]
      d1 == p[1] - q[1]
      dj == q[2] - p[2]
  IN  IF d1 > 0 THEN dj <= 0 \/ timesHashOver(100 * d1, dj, m)
      ELSE IF d1 = 0 THEN dj < 0
      ELSE dj < 0 /\ ~timesHashAtLeast(100 * (0 - d1), 0 - dj, m)

\* a slice that keeps one position too many
sliceFromOffByOne(s, n) == IF n + 1 >= Len(s) THEN <<>> ELSE SubSeq(s, n + 2, Len(s))

\* scored.slice(limit)
sliceFrom(s, n) == IF n >= Len(s) THEN <<>> ELSE SubSeq(s, n + 1, Len(s))

\* the positions of hex in row-major order, without the first `limit`
excessUnsorted(hex, cp, w, dl, de, mL, mE) ==
  sliceFrom(positionsOf(cp, hex), limits(hex))

\* lines 849-877: the positions of hex with their priorities (scored), sorted
\* by descending priority, without the first `limit`
excessOf(hex, cp, w, dl, de, mL, mE) ==
  LET positions == positionsOf(cp, hex)
      scored == [k \in 1..Len(positions) |->
                   [idx |-> positions[k],
                    priority |-> priorityOf(hex, positions[k], w, dl, de, mL, mE)]]
      before(a, b) == priorityGreater(a.priority, b.priority)
      sorted == stableSort(scored, before)
  IN  sliceFrom([k \in 1..Len(sorted) |-> sorted[k].idx], limits(hex))

\* the candidate colours of an excess water position in gradient order, the
\* ideal stop not moved to the front
waterCandidatesGradientOrder(idx, w, dl, de, mL, mE) == WATER_GRADIENT

\* lines 881-886: the candidate colours of an excess water position
waterCandidates(idx, w, dl, de, mL, mE) ==
  LET ln == landNormNum(dl, mL, idx)
      en == edgeNormNum(de, idx)
      tn == 7 * (mL - ln) * mE + 3 * (mE - en) * mL      \* t * 10 * mL * mE
      idealHex == WATER_GRADIENT[pickWaterGradientIndex(tn, 10 * mL * mE, idx % w, idx \div w) + 1]
  IN  <<idealHex>> \o SelectSeq(WATER_GRADIENT, LAMBDA wh : wh /= idealHex)

\* the other colours of the whole palette, water colours included, in config order
rankedOfWholePalette(hex) ==
  LET others == SelectSeq(config, LAMBDA c : c.hex /= hex)
  IN  [k \in 1..Len(others) |-> others[k].hex]

\* the other land colours in palette order, not sorted by distance
rankedInPaletteOrder(hex) ==
  LET others == SelectSeq(LAND_PALETTE, LAMBDA pc : pc.hex /= hex)
  IN  [k \in 1..Len(others) |-> others[k].hex]

\* lines 905-910: the other land colours, nearest first
rankedOf(hex) ==
  LET rgb  == hexToRgb(hex)
      orig == hslMilli(rgbToHsl(rgb[1], rgb[2], rgb[3], 1))
      others == SelectSeq(LAND_PALETTE, LAMBDA pc : pc.hex /= hex)
      withDist == [k \in 1..Len(others) |->
                     [hex |-> others[k].hex, dist |-> hslDistance(orig, others[k])]]
      before(a, b) == a.dist < b.dist
      sorted == stableSort(withDist, before)
  IN  [k \in 1..Len(sorted) |-> sorted[k].hex]

\* an excess water position with no candidate left is emptied
fallbackEmpty == Null

\* line 900: an excess water position with no candidate left becomes black
fallbackHex == colorByName("black")

\* the first candidate that is not `skip`, whatever its budget, or Undefined
firstAnyBudget(cands, skip, rem) ==
  LET ok == SelectSeq(cands, LAMBDA ch : ch /= skip)
  IN  IF ok = <<>> THEN Undefined ELSE ok[1]

\* the first candidate that is not `skip` and has budget left, or Undefined
firstWithBudget(cands, skip, rem) ==
  LET ok == SelectSeq(cands, LAMBDA ch : ch /= skip /\ remainingGet(rem, ch) > 0)
  IN  IF ok = <<>> THEN Undefined ELSE ok[1]


\* the colours a cell of the model's grids may hold
CellValues == { PaletteColors[i].hex : i \in DOMAIN PaletteColors } \cup {Null}

\* every grid of at most MaxCells cells: h rows of w cells, and the grid with no row
Grids ==
  {<<>>} \cup
  UNION { [1..h -> [1..w -> CellValues]] :
            <<w, h>> \in { d \in (1..MaxCells) \X (1..MaxCells) : d[1] * d[2] <= MaxCells } }

FxIdle ==
  /\ heap = <<>> /\ grid = Null /\ newGrid = Null
  /\ distToLand = <<>> /\ distToEdge = <<>> /\ maxLandDist = 1 /\ maxEdgeDist = 1
  /\ colorPositions = <<>> /\ remaining = <<>> /\ overColors = <<>>
  /\ oc = 0 /\ excess = <<>> /\ result = Null /\ fxPc = "off"

\* a caller holds a grid and is about to pass it to fixGridLimits
FxInit ==
  /\ heap \in { [k \in {1} |-> g] : g \in Grids }
  /\ grid = 1 /\ newGrid = Null
  /\ distToLand = <<>> /\ distToEdge = <<>> /\ maxLandDist = 1 /\ maxEdgeDist = 1
  /\ colorPositions = <<>> /\ remaining = <<>> /\ overColors = <<>>
  /\ oc = 0 /\ excess = <<>> /\ result = Null /\ fxPc = "idle"

\* a caller holds a one-row grid of OrderCells cells over two colours
OrderCells == 5
OrderColors == { PaletteColors[2].hex, PaletteColors[6].hex, Null }
FxOrderInit ==
  /\ heap \in { [k \in {1} |-> <<row>>] : row \in [1..OrderCells -> OrderColors] }
  /\ grid = 1 /\ newGrid = Null
  /\ distToLand = <<>> /\ distToEdge = <<>> /\ maxLandDist = 1 /\ maxEdgeDist = 1
  /\ colorPositions = <<>> /\ remaining = <<>> /\ overColors = <<>>
  /\ oc = 0 /\ excess = <<>> /\ result = Null /\ fxPc = "idle"

\* a caller holds a grid of at most AgainCells cells over AgainValues and will
\* pass what fixGridLimits returns to fixGridLimits again
AgainCells == 3
AgainValues == CellValues
FxAgainInit ==
  /\ heap \in { [k \in {1} |-> g] :
                 g \in UNION { [1..h -> [1..w -> AgainValues]] :
                        <<w, h>> \in { d \in (1..AgainCells) \X (1..AgainCells) :
                                         d[1] * d[2] <= AgainCells } } }
  /\ grid = 1 /\ newGrid = Null
  /\ distToLand = <<>> /\ distToEdge = <<>> /\ maxLandDist = 1 /\ maxEdgeDist = 1
  /\ colorPositions = <<>> /\ remaining = <<>> /\ overColors = <<>>
  /\ oc = 0 /\ excess = <<>> /\ result = Null /\ fxPc = "idle"

\* lines 776-836: classify, measure, count, find the over-limit colours;
\* return the argument when there is none, else copy it
FixStart ==
  /\ fxPc = "idle"
  /\ LET g  == heap[grid]
         w  == gridW(g)
         h  == gridH(g)
         isWater == cellIsWaterOf(g)
         dl == computeDistanceField(isWater, w, h, FALSE)
         de == computeEdgeDistance(w, h)
         cp == colorPositionsOf(g)
         ov == overColorsOf(cp)
     IN  /\ distToLand' = dl
         /\ distToEdge' = de
         /\ maxLandDist' = maxLandDistOf(isWater, dl)
         /\ maxEdgeDist' = maxEdgeDistOf(de)
         /\ colorPositions' = cp
         /\ remaining' = remainingOf(cp)
         /\ overColors' = ov
         /\ IF ov = <<>>
            THEN /\ result' = grid /\ fxPc' = "done" /\ oc' = 0
                 /\ UNCHANGED <<heap, newGrid>>
            ELSE LET cpy == copyGrid(heap, grid)
                 IN  /\ heap' = cpy.heap /\ newGrid' = cpy.ref
                     /\ result' = Null /\ fxPc' = "color" /\ oc' = 1
  /\ UNCHANGED <<grid, excess>>

\* lines 843-877: score and sort the positions of the next over-limit colour
FixColor ==
  /\ fxPc = "color"
  /\ oc <= Len(overColors)
  /\ excess' = excessOf(overColors[oc], colorPositions, gridW(heap[grid]),
                        distToLand, distToEdge, maxLandDist, maxEdgeDist)
  /\ fxPc' = "cell"
  /\ UNCHANGED <<heap, grid, newGrid, distToLand, distToEdge, maxLandDist, maxEdgeDist,
                 colorPositions, remaining, overColors, oc, result>>

\* lines 880-901 and 912-923: reassign one excess position
FixCell ==
  /\ fxPc = "cell"
  /\ excess /= <<>>
  /\ LET hex == overColors[oc]
         pos == Head(excess)
         w   == gridW(heap[grid])
         isWaterColor == hex \in WATER_HEXES
         cands == IF isWaterColor
                  THEN waterCandidates(pos, w, distToLand, distToEdge, maxLandDist, maxEdgeDist)
                  ELSE rankedOf(hex)
         ch  == firstWithBudget(cands, IF isWaterColor THEN hex ELSE Null, remaining)
         assigned == ch /= Undefined
         \* a land colour with no candidate left breaks out of the loop
         rest == IF ~assigned /\ ~isWaterColor THEN <<>> ELSE Tail(excess)
     IN  /\ IF assigned
            THEN /\ heap' = writeCell(heap, newGrid, pos, ch)
                 /\ remaining' = [remaining EXCEPT ![ch] = remainingGet(remaining, ch) - 1]
            ELSE /\ heap' = IF isWaterColor
                            THEN writeCell(heap, newGrid, pos, fallbackHex)
                            ELSE heap
                 /\ UNCHANGED remaining
         /\ excess' = rest
         /\ IF rest = <<>>
            THEN oc' = oc + 1 /\ fxPc' = "color"
            ELSE UNCHANGED <<oc, fxPc>>
  /\ UNCHANGED <<grid, newGrid, distToLand, distToEdge, maxLandDist, maxEdgeDist,
                 colorPositions, overColors, result>>

\* line 928
FixReturn ==
  /\ fxPc = "color"
  /\ oc > Len(overColors)
  /\ result' = newGrid
  /\ fxPc' = "done"
  /\ UNCHANGED <<heap, grid, newGrid, distToLand, distToEdge, maxLandDist, maxEdgeDist,
                 colorPositions, remaining, overColors, oc, excess>>

\* lines 329-335: the grid fixGridLimits returned was loaded and is passed to
\* fixGridLimits once more
FixAgain ==
  /\ fxPc = "done" /\ grid = 1
  /\ grid' = result /\ newGrid' = Null
  /\ distToLand' = <<>> /\ distToEdge' = <<>> /\ maxLandDist' = 1 /\ maxEdgeDist' = 1
  /\ colorPositions' = <<>> /\ remaining' = <<>> /\ overColors' = <<>>
  /\ oc' = 0 /\ excess' = <<>> /\ result' = Null /\ fxPc' = "idle"
  /\ UNCHANGED heap

\* ---- hash2d and pickWaterGradient as functions of their arguments --------
VARIABLES
  hashX, hashY,  \* the coordinates passed
  hashT,         \* the blend scalar passed, t = hashT / TDen
  hashOut,       \* hash2d(hashX, hashY) * 0x7fffffff, or Null before the call
  pickOut        \* the index pickWaterGradient(t, hashX, hashY) picked, or Null

hashVars == <<hashX, hashY, hashT, hashOut, pickOut>>

\* coordinates beyond the small ones: a pair where h & 0x7fffffff is 0x7fffffff
ProbeCoords == { <<26422, 25472>> }

HashIdle ==
  hashX = 0 /\ hashY = 0 /\ hashT = 0 /\ hashOut = Null /\ pickOut = Null

HashInit ==
  /\ \E xy \in ((0..MaxCoord) \X (0..MaxCoord)) \cup ProbeCoords :
       hashX = xy[1] /\ hashY = xy[2]
  /\ hashT \in 0..TDen
  /\ hashOut = Null /\ pickOut = Null

CallHash2d ==
  /\ hashOut = Null
  /\ hashOut' = hash2dNum(hashX, hashY)
  /\ UNCHANGED <<hashX, hashY, hashT, pickOut>>

CallPickWaterGradient ==
  /\ pickOut = Null
  /\ pickOut' = pickWaterGradientIndex(hashT, TDen, hashX, hashY)
  /\ UNCHANGED <<hashX, hashY, hashT, hashOut>>

\* ---- isWaterPixel as a function of its arguments ---------------------------
VARIABLES
  wpR, wpG, wpB,  \* the channels passed
  wpOut,          \* <<>> before the call, else <<the boolean returned>>
  wpPrev          \* <<>>, or <<the boolean an earlier call with the same
                  \* channels returned>>

wpVars == <<wpR, wpG, wpB, wpOut, wpPrev>>

\* the channel values tried: WaterLevels + 1 evenly spread levels and the
\* channels of the pixels named below
WaterLevels == 6
NamedPixels == { <<0, 0, 0>>, <<10, 10, 40>>, <<230, 225, 210>>, <<90, 80, 100>>,
                 <<20, 60, 160>> }
ProbeChannels ==
  { (255 * k) \div WaterLevels : k \in 0..WaterLevels }
    \cup UNION { {p[1], p[2], p[3]} : p \in NamedPixels }

WpIdle == wpR = 0 /\ wpG = 0 /\ wpB = 0 /\ wpOut = <<>> /\ wpPrev = <<>>

WpInit ==
  /\ wpR \in ProbeChannels /\ wpG \in ProbeChannels /\ wpB \in ProbeChannels
  /\ wpOut = <<>> /\ wpPrev = <<>>

\* isWaterPixel(wpR, wpG, wpB)
CallIsWaterPixel ==
  /\ wpOut = <<>>
  /\ wpOut' = <<isWaterPixel(wpR, wpG, wpB, 1)>>
  /\ UNCHANGED <<wpR, wpG, wpB, wpPrev>>

\* a second call with the same arguments
CallIsWaterPixelAgain ==
  /\ wpOut /= <<>> /\ wpPrev = <<>>
  /\ wpPrev' = wpOut
  /\ wpOut' = <<isWaterPixel(wpR, wpG, wpB, 1)>>
  /\ UNCHANGED <<wpR, wpG, wpB>>

\* ---- the priority score as a function of a position's distances -----------
VARIABLES
  scHex,          \* the over-limit colour
  scScale,        \* <<maxLandDist, maxEdgeDist>>
  scA, scB,       \* two positions of that colour: [ln, en, row, col] with
                  \* landNorm = ln / maxLandDist and edgeNorm = en / maxEdgeDist
  scOut           \* Null before the comparison, else 1 when a sorts before b,
                  \* 2 when b sorts before a, 0 when the comparator returns 0

scVars == <<scHex, scScale, scA, scB, scOut>>

\* the distances tried reach ScoreSpan steps beyond the nearest water cell
ScoreSpan == 2

\* maxLandDist and maxEdgeDist of a 1 x 2 grid, of a 5 x 5 grid with land in
\* a corner region, and of a 71 x 23 grid with one land cell at row 0, column 30
ScoreScales == { <<1, 1>>, <<3, 2>>, <<62, 11>> }

\* positions <<row, col>> with hash2d about 0, 0.54, 0.96 and 0.25
ScoreCoords == { <<0, 0>>, <<0, 1>>, <<2, 1>>, <<2, 2>> }

\* the positions of a water cell: its land distance is at least 1, its
\* border distance is at most its row and its column
ScorePositions(mL, mE) ==
  { [ln |-> ln, en |-> en, row |-> rc[1], col |-> rc[2]] :
      ln \in { d \in 1..(1 + ScoreSpan) : d <= mL } \cup {mL},
      en \in 0..Min2(ScoreSpan, mE), rc \in ScoreCoords }

ScIdle ==
  /\ scHex = Null /\ scScale = <<1, 1>>
  /\ scA = [ln |-> 1, en |-> 0, row |-> 0, col |-> 0]
  /\ scB = [ln |-> 1, en |-> 0, row |-> 0, col |-> 0]
  /\ scOut = Null

ScInit ==
  /\ scHex \in { config[i].hex : i \in DOMAIN config }
  /\ scScale \in ScoreScales
  /\ scA \in { c \in ScorePositions(scScale[1], scScale[2]) : c.en <= Min2(c.row, c.col) }
  /\ scB \in { c \in ScorePositions(scScale[1], scScale[2]) : c.en <= Min2(c.row, c.col) }
  /\ <<scA.row, scA.col>> /= <<scB.row, scB.col>>
  /\ scOut = Null

\* lines 849-874: score both positions and compare as the sort does
CallScore ==
  /\ scOut = Null
  /\ LET pa == scoreAt(scHex, scA.ln, scA.en, scA.row, scA.col, scScale[1], scScale[2])
         pb == scoreAt(scHex, scB.ln, scB.en, scB.row, scB.col, scScale[1], scScale[2])
     IN  scOut' = IF priorityGreater(pa, pb) THEN 1
                  ELSE IF priorityGreater(pb, pa) THEN 2 ELSE 0
  /\ UNCHANGED <<scHex, scScale, scA, scB>>

\* ---- imageToGrid ---------------------------------------------------------
VARIABLES
  imgW, imgH,      \* imageData.width, imageData.height
  imgData,         \* the pixels <<r, g, b>> by pixel index y * imgW + x
  gridWidth, gridHeight,
  detailRes,       \* the optional argument: a number, or Undefined when absent
  sw, sh,          \* the sampling size of the reduce path, 0 on the direct path
  igCalls,         \* how many calls of imageToGrid have been entered
  igBuf,           \* buf: per cell <<rSum, gSum, bSum, count>> (value = sum / count)
  igIsWater, igDistToLand, igDistToEdge, igMaxLandDist, igMaxEdgeDist,
  igGrid,          \* the grid the direct path builds
  small,           \* the grid the inner call returned to the reduce path
  igOut,           \* the grid returned to the caller, or Null
  igPc             \* "idle", "sample", "classify", "build", "return", "upscale",
                   \* "done" or "threw"

igVars == <<imgW, imgH, imgData, gridWidth, gridHeight, detailRes, sw, sh, igCalls,
            igBuf, igIsWater, igDistToLand, igDistToEdge, igMaxLandDist, igMaxEdgeDist,
            igGrid, small, igOut, igPc>>

\* the largest number of pixels of an image and the longest side of a grid
MaxPixels == 4
MaxSide == 3

\* the pixel colours of the model's images: a sea blue and a light grey
SamplePixels == { <<20, 60, 160>>, <<200, 200, 200>> }

RECURSIVE sumSeq(_)
sumSeq(q) == IF q = <<>> THEN 0 ELSE Head(q) + sumSeq(Tail(q))

\* Math.round(n / d) for n >= 0, d > 0
roundDiv(n, d) == (2 * n + d) \div (2 * d)

\* downsampleToBuffer with tiles that include their upper boundaries
downsampleOverlapping(w, h, data, gw, gh) ==
  [idx \in 0..(gw * gh - 1) |->
     LET gx == idx % gw
         gy == idx \div gw
         x0 == (gx * w) \div gw
         x1 == ((gx + 1) * w) \div gw
         y0 == (gy * h) \div gh
         y1 == ((gy + 1) * h) \div gh
         tile == SelectSeq([k \in 1..(w * h) |-> k - 1],
                           LAMBDA i : /\ (i % w) >= x0 /\ (i % w) <= x1
                                      /\ (i \div w) >= y0 /\ (i \div w) <= y1)
         count == Len(tile)
         chan(c) == sumSeq([k \in 1..count |-> data[tile[k]][c]])
     IN  IF count > 0 THEN << chan(1), chan(2), chan(3), count >>
         ELSE << 0, 0, 0, 1 >>]

\* downsampleToBuffer: the box average of each cell's tile, 0 for an empty tile
downsampleToBuffer(w, h, data, gw, gh) ==
  [idx \in 0..(gw * gh - 1) |->
     LET gx == idx % gw
         gy == idx \div gw
         x0 == (gx * w) \div gw
         x1 == ((gx + 1) * w) \div gw
         y0 == (gy * h) \div gh
         y1 == ((gy + 1) * h) \div gh
         tile == SelectSeq([k \in 1..(w * h) |-> k - 1],
                           LAMBDA i : /\ (i % w) >= x0 /\ (i % w) < x1
                                      /\ (i \div w) >= y0 /\ (i \div w) < y1)
         count == Len(tile)
         chan(c) == sumSeq([k \in 1..count |-> data[tile[k]][c]])
     IN  IF count > 0 THEN << chan(1), chan(2), chan(3), count >>
         ELSE << 0, 0, 0, 1 >>]

\* a reduce path that samples at the full grid size
sampleSizeFull(gw, gh, res) == << gw, gh >>

\* lines 698-706: <<sw, sh>> of the reduce path (exact division; the source
\* divides in floating point, which rounds the same way for sides below 15)
sampleSize(gw, gh, res) ==
  IF gw >= gh
  THEN << res, Max2(1, roundDiv(res * gh, gw)) >>
  ELSE << Max2(1, roundDiv(res * gw, gh)), res >>

\* the reduce path returning the small grid as it is
upscaleNone(sm, w, h, gw, gh) == sm

\* lines 708-714: the nearest-neighbour upscale of the small grid
upscale(sm, w, h, gw, gh) ==
  [r \in 1..gh |->
     [c \in 1..gw |->
        sm[Min2(((r - 1) * h) \div gh, h - 1) + 1][Min2(((c - 1) * w) \div gw, w - 1) + 1]]]

\* lines 751-765: the colour of cell i of the direct path
cellColor(i, w, buf, isWater, dl, de, mL, mE) ==
  LET den == buf[i][4]
      r == Max2(0, Min2(255 * den, buf[i][1]))
      g == Max2(0, Min2(255 * den, buf[i][2]))
      b == Max2(0, Min2(255 * den, buf[i][3]))
      ln == landNormNum(dl, mL, i)
      en == edgeNormNum(de, i)
      tn == 7 * (mL - ln) * mE + 3 * (mE - en) * mL      \* t * 10 * mL * mE
  IN  IF isWater[i]
      THEN WATER_GRADIENT[pickWaterGradientIndex(tn, 10 * mL * mE, i % w, i \div w) + 1]
      ELSE closestLandColor(r, g, b, den)

\* the size of the grid the direct path is building
igW == IF sw > 0 THEN sw ELSE gridWidth
igH == IF sw > 0 THEN sh ELSE gridHeight

IgIdle ==
  /\ imgW = 0 /\ imgH = 0 /\ imgData = <<>>
  /\ gridWidth = 0 /\ gridHeight = 0 /\ detailRes = Undefined
  /\ sw = 0 /\ sh = 0 /\ igCalls = 0 /\ igBuf = <<>>
  /\ igIsWater = <<>> /\ igDistToLand = <<>> /\ igDistToEdge = <<>>
  /\ igMaxLandDist = 1 /\ igMaxEdgeDist = 1
  /\ igGrid = <<>> /\ small = <<>> /\ igOut = Null /\ igPc = "off"

\* a caller holds an image and is about to call imageToGrid(image, w, h, res)
\* with an image of at most maxPixels pixels and sides up to maxSide
IgInitWith(maxPixels, maxSide) ==
  /\ \E w \in 1..maxPixels, h \in 1..maxPixels :
       /\ w * h <= maxPixels
       /\ imgW = w /\ imgH = h
       /\ imgData \in [0..(w * h - 1) -> SamplePixels]
  /\ \E gw \in 1..maxSide, gh \in 1..maxSide :
       /\ gridWidth = gw /\ gridHeight = gh
       /\ detailRes \in {Undefined} \cup (1..Max2(gw, gh))
  /\ sw = 0 /\ sh = 0 /\ igCalls = 0 /\ igBuf = <<>>
  /\ igIsWater = <<>> /\ igDistToLand = <<>> /\ igDistToEdge = <<>>
  /\ igMaxLandDist = 1 /\ igMaxEdgeDist = 1
  /\ igGrid = <<>> /\ small = <<>> /\ igOut = Null /\ igPc = "idle"

IgInit == IgInitWith(MaxPixels, MaxSide)

\* lines 697-707: choose the path; the reduce path calls imageToGrid(image, sw, sh)
IgCall ==
  /\ igPc = "idle"
  /\ IF detailRes /= Undefined /\ detailRes /= 0
        /\ detailRes < Max2(gridWidth, gridHeight)
     THEN LET sz == sampleSize(gridWidth, gridHeight, detailRes)
          IN  sw' = sz[1] /\ sh' = sz[2] /\ igCalls' = 2
     ELSE sw' = 0 /\ sh' = 0 /\ igCalls' = 1
  /\ igPc' = "sample"
  /\ UNCHANGED <<imgW, imgH, imgData, gridWidth, gridHeight, detailRes, igBuf,
                 igIsWater, igDistToLand, igDistToEdge, igMaxLandDist, igMaxEdgeDist,
                 igGrid, small, igOut>>

\* line 718
IgSample ==
  /\ igPc = "sample"
  /\ igBuf' = downsampleToBuffer(imgW, imgH, imgData, igW, igH)
  /\ igPc' = "classify"
  /\ UNCHANGED <<imgW, imgH, imgData, gridWidth, gridHeight, detailRes, sw, sh, igCalls,
                 igIsWater, igDistToLand, igDistToEdge, igMaxLandDist, igMaxEdgeDist,
                 igGrid, small, igOut>>

\* lines 721-741: classify the cells, measure the distances and their maxima
IgClassify ==
  /\ igPc = "classify"
  /\ LET isWater == [i \in DOMAIN igBuf |->
                       isWaterPixel(igBuf[i][1], igBuf[i][2], igBuf[i][3], igBuf[i][4])]
         dl == computeDistanceField(isWater, igW, igH, FALSE)
         de == computeEdgeDistance(igW, igH)
     IN  /\ igIsWater' = isWater
         /\ igDistToLand' = dl
         /\ igDistToEdge' = de
         /\ igMaxLandDist' = maxLandDistOf(isWater, dl)
         /\ igMaxEdgeDist' = maxEdgeDistOf(de)
  /\ igPc' = "build"
  /\ UNCHANGED <<imgW, imgH, imgData, gridWidth, gridHeight, detailRes, sw, sh, igCalls,
                 igBuf, igGrid, small, igOut>>

\* lines 744-767: fill the grid; closestLandColor throws on an empty land palette
IgBuild ==
  /\ igPc = "build"
  /\ LET color(i) == cellColor(i, igW, igBuf, igIsWater, igDistToLand, igDistToEdge,
                               igMaxLandDist, igMaxEdgeDist)
         throws == \E i \in DOMAIN igBuf : ~igIsWater[i] /\ LAND_PALETTE = <<>>
     IN  IF throws
         THEN igPc' = "threw" /\ UNCHANGED igGrid
         ELSE /\ igGrid' = [r \in 1..igH |-> [c \in 1..igW |-> color((r - 1) * igW + (c - 1))]]
              /\ igPc' = "return"
  /\ UNCHANGED <<imgW, imgH, imgData, gridWidth, gridHeight, detailRes, sw, sh, igCalls,
                 igBuf, igIsWater, igDistToLand, igDistToEdge, igMaxLandDist,
                 igMaxEdgeDist, small, igOut>>

\* line 769: return the grid, to the caller or to the reduce path (line 707)
IgReturn ==
  /\ igPc = "return"
  /\ IF sw > 0
     THEN small' = igGrid /\ igPc' = "upscale" /\ UNCHANGED igOut
     ELSE igOut' = igGrid /\ igPc' = "done" /\ UNCHANGED small
  /\ UNCHANGED <<imgW, imgH, imgData, gridWidth, gridHeight, detailRes, sw, sh, igCalls,
                 igBuf, igIsWater, igDistToLand, igDistToEdge, igMaxLandDist,
                 igMaxEdgeDist, igGrid>>

\* lines 708-715
IgUpscale ==
  /\ igPc = "upscale"
  /\ igOut' = upscale(small, sw, sh, gridWidth, gridHeight)
  /\ igPc' = "done"
  /\ UNCHANGED <<imgW, imgH, imgData, gridWidth, gridHeight, detailRes, sw, sh, igCalls,
                 igBuf, igIsWater, igDistToLand, igDistToEdge, igMaxLandDist,
                 igMaxEdgeDist, igGrid, small>>

\* ---- editorReducer (undo history and stroke batching) --------------------
VARIABLES
  undoable,      \* the UndoableState: past, present, future, strokeAnchor
  nextId,        \* the number of EditorState objects created so far
  lastAction,    \* the type of the action dispatched last, "" before the first
  stroke         \* what an observer of the dispatches noted about the stroke
                 \* in progress: its phase, the past and present at
                 \* STROKE_START, and whether a PAINT or ERASE changed the grid

edVars == <<undoable, nextId, lastAction, stroke>>

MAX_UNDO == 100

\* the editor grid of the model has one row of EdCells cells; at most
\* MaxObjects EditorState objects are created
EdCells == 2
MaxObjects == 4

\* BLACK_HEX
BLACK_HEX == IF colorByName("black") /= Undefined THEN colorByName("black") ELSE 0

\* the colours the pen paints with: red and black
PenColors == { PaletteColors[7].hex, PaletteColors[1].hex }

\* createGrid(width, height)
createGrid(width, height) == [r \in 1..height |-> [c \in 1..width |-> Null]]

\* activeColor before a colour is chosen (the empty string)
NoColor == 0 - 3

\* config.ts lines 24-28
UNDOABLE_ACTIONS ==
  {"PAINT", "ERASE", "RECOLOR_SELECTION", "DELETE_SELECTION",
   "RESIZE", "LOAD_GRID", "ROTATE_GRID"}

\* an EditorState object: its identity, its grid (width and height are the
\* grid's), the active colour and tool, and the selected cells <<row, col>>
EditorState(id, g) ==
  [id |-> id, grid |-> g, activeColor |-> NoColor, activeTool |-> "hand",
   selection |-> {}]

\* createInitialState
createInitialState(width, height) ==
  [past |-> <<>>, present |-> EditorState(0, createGrid(width, height)),
   future |-> <<>>, strokeAnchor |-> <<>>]

\* config.ts lines 110-119, RESIZE: the old cells that fit, the rest empty
resizeGrid(g, width, height) ==
  [r \in 1..height |->
     [c \in 1..width |->
        IF r <= Min2(height, gridH(g)) /\ c <= Min2(width, gridW(g))
        THEN g[r][c] ELSE Null]]

\* config.ts lines 128-143, ROTATE_GRID: a quarter turn, clockwise or counter-clockwise
rotateGrid(g, direction) ==
  LET oldH == gridH(g)
      oldW == gridW(g)
  IN  [i \in 1..oldW |->
         [j \in 1..oldH |->
            IF direction = "cw" THEN g[oldH + 1 - j][i] ELSE g[j][oldW + 1 - i]]]

\* coreReducer: PAINT and ERASE return the same object when nothing changes;
\* every other case that is handled returns a new object (identity fresh)
\* made from the fields of the old one
coreReducer(state, action, fresh) ==
  LET h == gridH(state.grid)
      w == gridW(state.grid)
      inRange == action.row >= 0 /\ action.row < h /\ action.col >= 0 /\ action.col < w
      value == IF action.type = "PAINT"
               THEN (IF action.color = BLACK_HEX THEN Null ELSE action.color)
               ELSE Null
      base == IF action.type \in {"SELECT_CELL", "SELECT_RECT"} /\ action.additive
              THEN state.selection ELSE {}
      selected(r, c) == <<r - 1, c - 1>> \in state.selection
      with(g) == [state EXCEPT !.id = fresh, !.grid = g, !.selection = {}]
  IN  CASE action.type \in {"PAINT", "ERASE"} ->
             IF ~inRange THEN state
             ELSE IF cellAt(state.grid, action.row, action.col) = value THEN state
             ELSE [state EXCEPT !.id = fresh,
                                !.grid[action.row + 1][action.col + 1] = value]
        [] action.type = "SET_COLOR" ->
             [state EXCEPT !.id = fresh, !.activeColor = action.color]
        [] action.type = "SET_TOOL" ->
             [state EXCEPT !.id = fresh, !.activeTool = action.tool, !.selection = {}]
        [] action.type = "SELECT_CELL" ->
             LET key == <<action.row, action.col>>
             IN  [state EXCEPT !.id = fresh,
                    !.selection = IF key \in base THEN base \ {key} ELSE base \cup {key}]
        [] action.type = "SELECT_RECT" ->
             [state EXCEPT !.id = fresh,
                !.selection = base \cup
                  ((Min2(action.startRow, action.endRow)..Max2(action.startRow, action.endRow))
                   \X (Min2(action.startCol, action.endCol)..Max2(action.startCol, action.endCol)))]
        [] action.type = "CLEAR_SELECTION" ->
             [state EXCEPT !.id = fresh, !.selection = {}]
        [] action.type = "RECOLOR_SELECTION" ->
             with([r \in 1..h |-> [c \in 1..w |->
                     IF selected(r, c) THEN action.color ELSE state.grid[r][c]]])
        [] action.type = "DELETE_SELECTION" ->
             with([r \in 1..h |-> [c \in 1..w |->
                     IF selected(r, c) THEN Null ELSE state.grid[r][c]]])
        [] action.type = "RESIZE" -> with(resizeGrid(state.grid, action.width, action.height))
        [] action.type = "LOAD_GRID" -> with(action.grid)
        [] action.type = "ROTATE_GRID" -> with(rotateGrid(state.grid, action.direction))
        [] OTHER -> state

\* a history that is never trimmed
sliceWhole(s, n) == s

\* s.slice(-n) for n > 0
sliceLast(s, n) == IF Len(s) <= n THEN s ELSE SubSeq(s, Len(s) - n + 1, Len(s))

\* an undoable change during a stroke that is given an undo entry of its own
applyUndoableEach(u, newPresent) ==
  [past |-> Append(sliceLast(u.past, MAX_UNDO - 1), u.present),
   present |-> newPresent, future |-> <<>>, strokeAnchor |-> u.strokeAnchor]

\* config.ts lines 190-200: an undoable action that changed the present
applyUndoable(u, newPresent) ==
  IF u.strokeAnchor /= <<>>
  THEN [u EXCEPT !.present = newPresent]
  ELSE [past |-> Append(sliceLast(u.past, MAX_UNDO - 1), u.present),
        present |-> newPresent, future |-> <<>>, strokeAnchor |-> <<>>]

\* an UNDO that puts the present behind the states to redo
undoToBack(u) ==
  IF Len(u.past) = 0 THEN u
  ELSE [past |-> SubSeq(u.past, 1, Len(u.past) - 1),
        present |-> u.past[Len(u.past)],
        future |-> Append(u.future, u.present),
        strokeAnchor |-> <<>>]

\* config.ts lines 150-158: UNDO
undo(u) ==
  IF Len(u.past) = 0 THEN u
  ELSE [past |-> SubSeq(u.past, 1, Len(u.past) - 1),
        present |-> u.past[Len(u.past)],
        future |-> <<u.present>> \o u.future,
        strokeAnchor |-> <<>>]

\* config.ts lines 160-168: REDO
redo(u) ==
  IF Len(u.future) = 0 THEN u
  ELSE [past |-> Append(u.past, u.present),
        present |-> u.future[1],
        future |-> Tail(u.future),
        strokeAnchor |-> <<>>]

\* editorReducer(undoable, action); fresh is the identity a new object gets
editorReducer(u, action, fresh) ==
  IF action.type = "UNDO" THEN undo(u)
  ELSE IF action.type = "REDO" THEN redo(u)
  ELSE IF action.type = "STROKE_START"
  THEN [u EXCEPT !.strokeAnchor = <<u.present>>]
  ELSE IF action.type = "STROKE_END"
  THEN IF u.strokeAnchor = <<>> THEN u
       ELSE IF u.present.id = u.strokeAnchor[1].id
       THEN [u EXCEPT !.strokeAnchor = <<>>]
       ELSE [past |-> Append(sliceLast(u.past, MAX_UNDO - 1), u.strokeAnchor[1]),
             present |-> u.present, future |-> <<>>, strokeAnchor |-> <<>>]
  ELSE LET newPresent == coreReducer(u.present, action, fresh)
       IN  IF newPresent.id = u.present.id THEN u
           ELSE IF action.type \in UNDOABLE_ACTIONS THEN applyUndoable(u, newPresent)
           ELSE [u EXCEPT !.present = newPresent]

\* the observer's note after an action of the given type
strokeAfter(type, changed) ==
  IF type = "STROKE_START"
  THEN [phase |-> "open", past |-> undoable.past, present |-> <<undoable.present>>,
        changed |-> FALSE]
  ELSE IF type \in {"PAINT", "ERASE"} /\ stroke.phase = "open"
  THEN [stroke EXCEPT !.changed = stroke.changed \/ changed]
  ELSE IF type = "STROKE_END" /\ stroke.phase = "open"
  THEN [stroke EXCEPT !.phase = "ended"]
  ELSE IF type = "UNDO" /\ stroke.phase = "ended"
  THEN [stroke EXCEPT !.phase = "undone"]
  ELSE [phase |-> "none", past |-> <<>>, present |-> <<>>, changed |-> FALSE]

EdIdle ==
  /\ undoable = [past |-> <<>>, present |-> EditorState(0, <<>>),
                 future |-> <<>>, strokeAnchor |-> <<>>]
  /\ nextId = 0 /\ lastAction = "off"
  /\ stroke = [phase |-> "none", past |-> <<>>, present |-> <<>>, changed |-> FALSE]

\* useReducer(editorReducer, createInitialState(..))
EdInit ==
  /\ undoable = createInitialState(EdCells, 1)
  /\ nextId = 1 /\ lastAction = ""
  /\ stroke = [phase |-> "none", past |-> <<>>, present |-> <<>>, changed |-> FALSE]

\* the states of an editor in which cell (0, 0) was painted red and erased in
\* turn: state i is the one after i changes
deepState(i) ==
  [EditorState(i, createGrid(EdCells, 1)) EXCEPT
     !.grid[1][1] = IF i % 2 = 1 THEN PaletteColors[7].hex ELSE Null,
     !.activeColor = PaletteColors[7].hex, !.activeTool = "pen"]

\* the editor after MAX_UNDO + 1 such changes: either each was an action of its
\* own, and the oldest state has been dropped from past, or the last one was
\* made inside a stroke that is still open
EdDeepInit ==
  /\ \/ /\ undoable = [past |-> [i \in 1..MAX_UNDO |-> deepState(i)],
                        present |-> deepState(MAX_UNDO + 1),
                        future |-> <<>>, strokeAnchor |-> <<>>]
        /\ stroke = [phase |-> "none", past |-> <<>>, present |-> <<>>, changed |-> FALSE]
     \/ /\ undoable = [past |-> [i \in 1..MAX_UNDO |-> deepState(i - 1)],
                        present |-> deepState(MAX_UNDO + 1),
                        future |-> <<>>, strokeAnchor |-> <<deepState(MAX_UNDO)>>]
        /\ stroke = [phase |-> "open", past |-> [i \in 1..MAX_UNDO |-> deepState(i - 1)],
                     present |-> <<deepState(MAX_UNDO)>>, changed |-> TRUE]
  /\ nextId = MAX_UNDO + 2 /\ lastAction = ""

\* dispatch(action), while at most cap objects have been created
DispatchWithin(action, cap) ==
  /\ lastAction /= "off"
  /\ nextId <= cap
  /\ LET u == editorReducer(undoable, action, nextId)
     IN  /\ undoable' = u
         /\ nextId' = IF u.present.id = nextId THEN nextId + 1 ELSE nextId
         /\ stroke' = strokeAfter(action.type, u.present.grid /= undoable.present.grid)
  /\ lastAction' = action.type

\* dispatch(action)
Dispatch(action) == DispatchWithin(action, MaxObjects)

DispatchPaint ==
  \E row \in 0..1, col \in 0..EdCells, color \in PenColors :
    Dispatch([type |-> "PAINT", row |-> row, col |-> col, color |-> color])

DispatchErase ==
  \E row \in 0..1, col \in 0..EdCells :
    Dispatch([type |-> "ERASE", row |-> row, col |-> col, color |-> Null])

\* the tools of the toolbar and the colours of the palette picker
Tools == {"hand", "pen", "eraser"}

DispatchSetTool == \E tool \in Tools : Dispatch([type |-> "SET_TOOL", tool |-> tool])
DispatchSetColor == \E color \in PenColors : Dispatch([type |-> "SET_COLOR", color |-> color])

DispatchUndo == Dispatch([type |-> "UNDO"])
DispatchRedo == Dispatch([type |-> "REDO"])
DispatchStrokeStart == Dispatch([type |-> "STROKE_START"])
DispatchStrokeEnd == Dispatch([type |-> "STROKE_END"])

\* ---- the App's handlers that load a grid made from the imported image ----
VARIABLES
  limitPieces,    \* the "limit pieces" toggle
  resolution,     \* the resolution slider's value
  importedImage,  \* importedImageRef.current: <<>> or <<image>>
  appHandler,     \* the handler that ran last, "" before the first
  appCalls,       \* the number of handler calls so far
  appPc           \* where the running handler is, "idle" between handlers

appVars == <<limitPieces, resolution, importedImage, appHandler, appCalls, appPc>>

\* at most MaxHandlerCalls handlers run; an uploaded image has at most
\* AppPixels pixels
MaxHandlerCalls == 2
AppPixels == 2

\* App.tsx lines 16-19 for a plate of EdCells by 1 studs
PLATE_W == EdCells
PLATE_H == Min2(EdCells, 1)
FULL_LONG == Max2(PLATE_W, PLATE_H)
FULL_SHORT == Min2(PLATE_W, PLATE_H)

\* useState(true): also the value handleImageUpload's closure holds for good,
\* because its dependency list names dispatch alone
INITIAL_LIMIT_PIECES == TRUE

\* the images a file can decode to
Images ==
  UNION { { [w |-> wh[1], h |-> wh[2], data |-> d] :
              d \in [0..(wh[1] * wh[2] - 1) -> SamplePixels] } :
          wh \in { x \in (1..AppPixels) \X (1..AppPixels) : x[1] * x[2] <= AppPixels } }

\* the handler calls imageToGrid(image, gw, gh, res); no fixGridLimits call
\* of an earlier handler is left over
callImageToGrid(img, gw, gh, res) ==
  /\ imgW' = img.w /\ imgH' = img.h /\ imgData' = img.data
  /\ gridWidth' = gw /\ gridHeight' = gh /\ detailRes' = res
  /\ sw' = 0 /\ sh' = 0 /\ igCalls' = 0 /\ igBuf' = <<>>
  /\ igIsWater' = <<>> /\ igDistToLand' = <<>> /\ igDistToEdge' = <<>>
  /\ igMaxLandDist' = 1 /\ igMaxEdgeDist' = 1
  /\ igGrid' = <<>> /\ small' = <<>> /\ igOut' = Null /\ igPc' = "idle"

\* no fixGridLimits call is in progress or has returned to this handler
noFixCall ==
  /\ heap' = <<>> /\ grid' = Null /\ newGrid' = Null
  /\ distToLand' = <<>> /\ distToEdge' = <<>> /\ maxLandDist' = 1 /\ maxEdgeDist' = 1
  /\ colorPositions' = <<>> /\ remaining' = <<>> /\ overColors' = <<>>
  /\ oc' = 0 /\ excess' = <<>> /\ result' = Null /\ fxPc' = "off"

\* the handler calls fixGridLimits(g)
callFixGridLimits(g) ==
  /\ heap' = [k \in {1} |-> g] /\ grid' = 1 /\ newGrid' = Null
  /\ distToLand' = <<>> /\ distToEdge' = <<>> /\ maxLandDist' = 1 /\ maxEdgeDist' = 1
  /\ colorPositions' = <<>> /\ remaining' = <<>> /\ overColors' = <<>>
  /\ oc' = 0 /\ excess' = <<>> /\ result' = Null /\ fxPc' = "idle"

AppIdle ==
  /\ limitPieces = INITIAL_LIMIT_PIECES /\ resolution = 0 /\ importedImage = <<>>
  /\ appHandler = "" /\ appCalls = 0 /\ appPc = "off"

\* lines 52-56: the first render
AppInit ==
  /\ limitPieces = INITIAL_LIMIT_PIECES /\ resolution = FULL_LONG /\ importedImage = <<>>
  /\ appHandler = "" /\ appCalls = 0 /\ appPc = "idle"

appReady == appPc = "idle" /\ appCalls < MaxHandlerCalls

\* lines 267-285: handleImageUpload up to the call of imageToGrid
handleImageUpload ==
  /\ appReady
  /\ \E img \in Images :
       /\ importedImage' = <<img>>
       /\ IF img.w >= img.h
          THEN callImageToGrid(img, FULL_LONG, FULL_SHORT, Undefined)
          ELSE callImageToGrid(img, FULL_SHORT, FULL_LONG, Undefined)
  /\ noFixCall
  /\ resolution' = FULL_LONG
  /\ appHandler' = "upload" /\ appCalls' = appCalls + 1 /\ appPc' = "synth"
  /\ UNCHANGED <<limitPieces, edVars>>

\* lines 298-305: handleResolutionChange up to the call of imageToGrid
handleResolutionChange ==
  /\ appReady
  /\ importedImage /= <<>>
  /\ \E res \in 1..FULL_LONG :
       /\ resolution' = res
       /\ callImageToGrid(importedImage[1], gridW(undoable.present.grid),
                          gridH(undoable.present.grid), res)
  /\ noFixCall
  /\ appHandler' = "resolution" /\ appCalls' = appCalls + 1 /\ appPc' = "synth"
  /\ UNCHANGED <<limitPieces, importedImage, edVars>>

\* lines 311-318: handleRenderOptionsChange up to the call of imageToGrid
handleRenderOptionsChange ==
  /\ appReady
  /\ importedImage /= <<>>
  /\ LET gw == gridW(undoable.present.grid)
         gh == gridH(undoable.present.grid)
     IN  callImageToGrid(importedImage[1], gw, gh,
                         IF resolution < Max2(gw, gh) THEN resolution ELSE Undefined)
  /\ noFixCall
  /\ appHandler' = "options" /\ appCalls' = appCalls + 1 /\ appPc' = "synth"
  /\ UNCHANGED <<limitPieces, resolution, importedImage, edVars>>

\* lines 329-333: handleToggleLimits up to the call of fixGridLimits
handleToggleLimits ==
  /\ appReady
  /\ \E on \in BOOLEAN :
       /\ limitPieces' = on
       /\ IF on
          THEN callFixGridLimits(undoable.present.grid) /\ appPc' = "limit"
          ELSE noFixCall /\ appPc' = "idle"
  /\ appHandler' = "toggle" /\ appCalls' = appCalls + 1
  /\ UNCHANGED <<resolution, importedImage, igVars, edVars>>

\* whether the running handler passes its grid to fixGridLimits: lines 286
\* and 319; handleResolutionChange has no such line
handlerLimits ==
  \/ appHandler = "upload" /\ INITIAL_LIMIT_PIECES
  \/ appHandler = "options" /\ limitPieces

\* imageToGrid has returned to the handler
AppSynthesized ==
  /\ appPc = "synth" /\ igPc = "done"
  /\ IF handlerLimits
     THEN callFixGridLimits(igOut) /\ appPc' = "limit"
     ELSE UNCHANGED fxVars /\ appPc' = "dispatch"
  /\ UNCHANGED <<limitPieces, resolution, importedImage, appHandler, appCalls, igVars, edVars>>

\* lines 287-288, 306, 320, 333: dispatch LOAD_GRID with the handler's grid
AppDispatch ==
  /\ \/ appPc = "limit" /\ fxPc = "done"
     \/ appPc = "dispatch"
  /\ Dispatch([type |-> "LOAD_GRID",
               grid |-> IF appPc = "limit" THEN heap[result] ELSE igOut])
  /\ limitPieces' = IF appHandler = "upload" THEN TRUE ELSE limitPieces
  /\ appPc' = "idle"
  /\ UNCHANGED <<resolution, importedImage, appHandler, appCalls, igVars, fxVars>>

\* ---- the App's tabs and the source image kept for re-synthesis ------------
VARIABLES
  tabs,              \* tabsState.tabs: the open tabs, each [id, name]
  activeTabId,       \* tabsState.activeTabId
  currentTab,        \* currentTabRef.current
  idsMade,           \* how many ids generateId has returned: ids are 1, 2, ...
  files,             \* localStorage under FILE_PREFIX: a function from ids to grids
  sourceImages,      \* localStorage under IMAGE_PREFIX: a function from ids to images
  hasImportedImage,  \* the hasImportedImage state
  decodes,           \* the base64ToImageData promises not settled yet, each
                     \* [tab, img]: the tab it was started for and the image
                     \* it resolves to
  tbPc               \* "on" while the App is mounted, "off" otherwise

tbVars == <<tabs, activeTabId, currentTab, idsMade, files, sourceImages,
            hasImportedImage, decodes, tbPc>>

\* the tab handlers load at most MaxTabLoads grids into the editor
MaxTabLoads == 3

\* the images saved with a tab (the PNG data URL is lossless: it is modelled
\* as the image it decodes to)
SavedImages == { [w |-> 1, h |-> 1, data |-> [i \in {0} |-> px]] : px \in SamplePixels }

\* the names a tab is given
TabNames == {"Untitled", "Map"}

tabIds == { tabs[k].id : k \in DOMAIN tabs }

\* localStorage.setItem(prefix + id, value) and removeItem(prefix + id)
setItem(store, id, value) ==
  [k \in DOMAIN store \cup {id} |-> IF k = id THEN value ELSE store[k]]
removeItem(store, id) == [k \in DOMAIN store \ {id} |-> store[k]]

\* loadFileData(id)?.grid, or the empty plate
gridOfTab(store, id) ==
  IF id \in DOMAIN store THEN store[id] ELSE createGrid(PLATE_W, PLATE_H)

\* the grid saved with tab id in a restored session
savedGrid(id) ==
  [createGrid(PLATE_W, PLATE_H) EXCEPT ![1][1] = IF id = 1 THEN PaletteColors[7].hex ELSE Null]

TbIdle ==
  /\ tabs = <<>> /\ activeTabId = 0 /\ currentTab = 0 /\ idsMade = 0
  /\ files = <<>> /\ sourceImages = <<>> /\ hasImportedImage = FALSE
  /\ decodes = {} /\ tbPc = "off"

\* lines 33-86: the first render and its effects, either with nothing saved
\* (one new tab) or with a saved session of two tabs, each with or without a
\* source image; the effect of lines 77-86 starts the decode of the active
\* tab's image
TbInit ==
  /\ \/ /\ tabs = << [id |-> 1, name |-> "Untitled"] >>
        /\ activeTabId = 1 /\ idsMade = 1
        /\ files = [k \in {1} |-> createGrid(PLATE_W, PLATE_H)]
        /\ sourceImages = <<>>
     \/ /\ tabs = << [id |-> 1, name |-> "Untitled"], [id |-> 2, name |-> "Map"] >>
        /\ activeTabId \in {1, 2} /\ idsMade = 2
        /\ files = [k \in {1, 2} |-> savedGrid(k)]
        /\ \E withImage \in SUBSET {1, 2} :
             sourceImages \in [withImage -> SavedImages]
  /\ currentTab = activeTabId
  /\ undoable = [createInitialState(PLATE_W, PLATE_H) EXCEPT
                   !.present.grid = gridOfTab(files, activeTabId)]
  /\ nextId = 1 /\ lastAction = ""
  /\ stroke = [phase |-> "none", past |-> <<>>, present |-> <<>>, changed |-> FALSE]
  /\ hasImportedImage = (activeTabId \in DOMAIN sourceImages)
  /\ decodes = IF activeTabId \in DOMAIN sourceImages
               THEN { [tab |-> activeTabId, img |-> sourceImages[activeTabId]] }
               ELSE {}
  /\ tbPc = "on"

\* lines 128-138: restore the source image of tab id if one is saved
restoreSourceImage(id, store) ==
  IF id \in DOMAIN store
  THEN /\ hasImportedImage' = TRUE
       /\ decodes' = decodes \cup { [tab |-> id, img |-> store[id]] }
       /\ UNCHANGED importedImage
  ELSE /\ hasImportedImage' = FALSE
       /\ importedImage' = <<>>
       /\ UNCHANGED decodes

\* lines 103-139, with the auto-save effect of lines 93-100 that follows the
\* render (the zoom level, which nothing else reads, is left out)
handleSelectTab ==
  /\ tbPc = "on"
  /\ \E id \in tabIds :
       IF id = currentTab
       THEN UNCHANGED <<tbVars, edVars, importedImage>>
       ELSE LET saved == setItem(files, currentTab, undoable.present.grid)
                g == gridOfTab(saved, id)
            IN  /\ DispatchWithin([type |-> "LOAD_GRID", grid |-> g], MaxTabLoads)
                /\ files' = setItem(saved, id, g)
                /\ currentTab' = id /\ activeTabId' = id
                /\ restoreSourceImage(id, sourceImages)
                /\ UNCHANGED <<tabs, idsMade, sourceImages, tbPc>>
  /\ UNCHANGED <<limitPieces, resolution, appHandler, appCalls, appPc>>

\* lines 141-157, with the auto-save effect
handleNewTab ==
  /\ tbPc = "on"
  /\ LET saved == setItem(files, currentTab, undoable.present.grid)
         id == idsMade + 1
         g == createGrid(PLATE_W, PLATE_H)
     IN  /\ DispatchWithin([type |-> "LOAD_GRID", grid |-> g], MaxTabLoads)
         /\ files' = setItem(saved, id, g)
         /\ idsMade' = id /\ currentTab' = id /\ activeTabId' = id
         /\ tabs' = Append(tabs, [id |-> id, name |-> "Untitled"])
  /\ hasImportedImage' = FALSE /\ importedImage' = <<>>
  /\ UNCHANGED <<sourceImages, decodes, tbPc>>
  /\ UNCHANGED <<limitPieces, resolution, appHandler, appCalls, appPc>>

\* a close that leaves activeTabId as it was
activeKept(prevActive, id, newActiveId) == prevActive

\* lines 171-186: activeTabId after closing tab id while other tabs remain
activeAfterClose(prevActive, id, newActiveId) ==
  IF id = prevActive THEN newActiveId ELSE prevActive

\* lines 159-190, with the auto-save effect
handleCloseTab ==
  /\ tbPc = "on"
  /\ \E id \in tabIds :
       /\ LET remainingTabs == SelectSeq(tabs, LAMBDA t : t.id /= id)
              idx == (CHOOSE k \in DOMAIN tabs : tabs[k].id = id) - 1
              deleted == removeItem(files, id)
          IN  IF Len(remainingTabs) = 0
              THEN LET newId == idsMade + 1
                       g == createGrid(PLATE_W, PLATE_H)
                   IN  /\ DispatchWithin([type |-> "LOAD_GRID", grid |-> g], MaxTabLoads)
                       /\ idsMade' = newId /\ currentTab' = newId
                       /\ files' = setItem(deleted, newId, g)
                       /\ tabs' = << [id |-> newId, name |-> "Untitled"] >>
                       /\ activeTabId' = newId
              ELSE LET newActive == remainingTabs[Min2(idx, Len(remainingTabs) - 1) + 1]
                       g == gridOfTab(files, newActive.id)
                   IN  /\ IF id = activeTabId
                          THEN /\ DispatchWithin([type |-> "LOAD_GRID", grid |-> g], MaxTabLoads)
                               /\ currentTab' = newActive.id
                               /\ files' = setItem(deleted, newActive.id, g)
                          ELSE /\ files' = deleted
                               /\ UNCHANGED <<currentTab, edVars>>
                       /\ tabs' = remainingTabs
                       /\ activeTabId' = activeAfterClose(activeTabId, id, newActive.id)
                       /\ UNCHANGED idsMade
       /\ sourceImages' = removeItem(sourceImages, id)
  /\ hasImportedImage' = FALSE /\ importedImage' = <<>>
  /\ UNCHANGED <<decodes, tbPc>>
  /\ UNCHANGED <<limitPieces, resolution, appHandler, appCalls, appPc>>

\* lines 192-197
handleRenameTab ==
  /\ tbPc = "on"
  /\ \E id \in tabIds, name \in TabNames :
       tabs' = [k \in DOMAIN tabs |->
                  IF tabs[k].id = id THEN [tabs[k] EXCEPT !.name = name] ELSE tabs[k]]
  /\ UNCHANGED <<activeTabId, currentTab, idsMade, files, sourceImages,
                 hasImportedImage, decodes, tbPc>>
  /\ UNCHANGED <<appVars, edVars>>

\* lines 82-84 and 132-134: a decode settles and its continuation runs
DecodeSettled ==
  /\ tbPc = "on"
  /\ \E d \in decodes :
       /\ importedImage' = <<d.img>>
       /\ decodes' = decodes \ {d}
  /\ UNCHANGED <<tabs, activeTabId, currentTab, idsMade, files, sourceImages,
                 hasImportedImage, tbPc>>
  /\ UNCHANGED <<limitPieces, resolution, appHandler, appCalls, appPc, edVars>>

\* ---- specifications ------------------------------------------------------
vars == <<cfgVars, dfVars, fxVars, hashVars, igVars, edVars, appVars, wpVars, scVars, tbVars>>

\* fixGridLimits on every small grid, under every supply
InitLimit == config \in ValidConfigs /\ core = "loaded" /\ FxInit /\ DfIdle /\ HashIdle /\ IgIdle /\ EdIdle /\ AppIdle /\ WpIdle /\ ScIdle /\ TbIdle
NextLimit ==
  \/ FixStart /\ UNCHANGED <<cfgVars, dfVars, hashVars, igVars, edVars, appVars, wpVars, scVars, tbVars>>
  \/ FixColor /\ UNCHANGED <<cfgVars, dfVars, hashVars, igVars, edVars, appVars, wpVars, scVars, tbVars>>
  \/ FixCell /\ UNCHANGED <<cfgVars, dfVars, hashVars, igVars, edVars, appVars, wpVars, scVars, tbVars>>
  \/ FixReturn /\ UNCHANGED <<cfgVars, dfVars, hashVars, igVars, edVars, appVars, wpVars, scVars, tbVars>>
SpecLimit == InitLimit /\ [][NextLimit]_vars

\* computeDistanceField on every small mask
InitDist == config \in {ConfigWith([i \in 1..7 |-> 1])} /\ core = "loaded" /\ DfInit /\ FxIdle /\ HashIdle /\ IgIdle /\ EdIdle /\ AppIdle /\ WpIdle /\ ScIdle /\ TbIdle
NextDist ==
  \/ DfCall /\ UNCHANGED <<cfgVars, fxVars, hashVars, igVars, edVars, appVars, wpVars, scVars, tbVars>>
  \/ DfLoop /\ UNCHANGED <<cfgVars, fxVars, hashVars, igVars, edVars, appVars, wpVars, scVars, tbVars>>
  \/ DfReturn /\ UNCHANGED <<cfgVars, fxVars, hashVars, igVars, edVars, appVars, wpVars, scVars, tbVars>>
SpecDist == InitDist /\ [][NextDist]_vars

\* the same call run to completion: the loop is sequential code that nothing
\* suspends, so a step that can be taken is taken
MaxRunCells == 6
InitDistRun == config \in {ConfigWith([i \in 1..7 |-> 1])} /\ core = "loaded" /\ DfInitWith(MaxRunCells) /\ FxIdle /\ HashIdle /\ IgIdle /\ EdIdle /\ AppIdle /\ WpIdle /\ ScIdle /\ TbIdle
SpecDistRun == InitDistRun /\ [][NextDist]_vars /\ WF_vars(NextDist)

\* hash2d and pickWaterGradient on small coordinates and the probe
InitHash == config \in {ConfigWith([i \in 1..7 |-> 1])} /\ core = "loaded" /\ HashInit /\ DfIdle /\ FxIdle /\ IgIdle /\ EdIdle /\ AppIdle /\ WpIdle /\ ScIdle /\ TbIdle
NextHash ==
  \/ CallHash2d /\ UNCHANGED <<cfgVars, dfVars, fxVars, igVars, edVars, appVars, wpVars, scVars, tbVars>>
  \/ CallPickWaterGradient /\ UNCHANGED <<cfgVars, dfVars, fxVars, igVars, edVars, appVars, wpVars, scVars, tbVars>>
SpecHash == InitHash /\ [][NextHash]_vars

\* imageToGrid on every small image, grid size and detail resolution
InitSynth == config \in {ConfigWith([i \in 1..7 |-> 1])} /\ core = "loaded" /\ IgInit /\ DfIdle /\ FxIdle /\ HashIdle /\ EdIdle /\ AppIdle /\ WpIdle /\ ScIdle /\ TbIdle
NextSynth ==
  \/ IgCall /\ UNCHANGED <<cfgVars, dfVars, fxVars, hashVars, edVars, appVars, wpVars, scVars, tbVars>>
  \/ IgSample /\ UNCHANGED <<cfgVars, dfVars, fxVars, hashVars, edVars, appVars, wpVars, scVars, tbVars>>
  \/ IgClassify /\ UNCHANGED <<cfgVars, dfVars, fxVars, hashVars, edVars, appVars, wpVars, scVars, tbVars>>
  \/ IgBuild /\ UNCHANGED <<cfgVars, dfVars, fxVars, hashVars, edVars, appVars, wpVars, scVars, tbVars>>
  \/ IgReturn /\ UNCHANGED <<cfgVars, dfVars, fxVars, hashVars, edVars, appVars, wpVars, scVars, tbVars>>
  \/ IgUpscale /\ UNCHANGED <<cfgVars, dfVars, fxVars, hashVars, edVars, appVars, wpVars, scVars, tbVars>>
SpecSynth == InitSynth /\ [][NextSynth]_vars

\* imageToGrid or fixGridLimits, on small inputs under one supply
InitNorm ==
  /\ config \in {ConfigWith([i \in 1..7 |-> 1])} /\ core = "loaded"
  /\ DfIdle /\ HashIdle /\ EdIdle /\ AppIdle /\ WpIdle /\ ScIdle /\ TbIdle
  /\ \/ IgInit /\ FxIdle
     \/ FxInit /\ IgIdle
NextNorm ==
  \/ IgCall /\ UNCHANGED <<cfgVars, dfVars, fxVars, hashVars, edVars, appVars, wpVars, scVars, tbVars>>
  \/ IgSample /\ UNCHANGED <<cfgVars, dfVars, fxVars, hashVars, edVars, appVars, wpVars, scVars, tbVars>>
  \/ IgClassify /\ UNCHANGED <<cfgVars, dfVars, fxVars, hashVars, edVars, appVars, wpVars, scVars, tbVars>>
  \/ IgBuild /\ UNCHANGED <<cfgVars, dfVars, fxVars, hashVars, edVars, appVars, wpVars, scVars, tbVars>>
  \/ IgReturn /\ UNCHANGED <<cfgVars, dfVars, fxVars, hashVars, edVars, appVars, wpVars, scVars, tbVars>>
  \/ IgUpscale /\ UNCHANGED <<cfgVars, dfVars, fxVars, hashVars, edVars, appVars, wpVars, scVars, tbVars>>
  \/ FixStart /\ UNCHANGED <<cfgVars, dfVars, hashVars, igVars, edVars, appVars, wpVars, scVars, tbVars>>
  \/ FixColor /\ UNCHANGED <<cfgVars, dfVars, hashVars, igVars, edVars, appVars, wpVars, scVars, tbVars>>
  \/ FixCell /\ UNCHANGED <<cfgVars, dfVars, hashVars, igVars, edVars, appVars, wpVars, scVars, tbVars>>
  \/ FixReturn /\ UNCHANGED <<cfgVars, dfVars, hashVars, igVars, edVars, appVars, wpVars, scVars, tbVars>>
SpecNorm == InitNorm /\ [][NextNorm]_vars

\* the editor's reducer under every short sequence of dispatches
InitEdit ==
  /\ config \in {ConfigWith([i \in 1..7 |-> 1])} /\ core = "loaded"
  /\ EdInit /\ DfIdle /\ FxIdle /\ HashIdle /\ IgIdle /\ AppIdle /\ WpIdle /\ ScIdle /\ TbIdle
NextEdit ==
  \/ DispatchPaint /\ UNCHANGED <<cfgVars, dfVars, fxVars, hashVars, igVars, appVars, wpVars, scVars, tbVars>>
  \/ DispatchErase /\ UNCHANGED <<cfgVars, dfVars, fxVars, hashVars, igVars, appVars, wpVars, scVars, tbVars>>
  \/ DispatchUndo /\ UNCHANGED <<cfgVars, dfVars, fxVars, hashVars, igVars, appVars, wpVars, scVars, tbVars>>
  \/ DispatchRedo /\ UNCHANGED <<cfgVars, dfVars, fxVars, hashVars, igVars, appVars, wpVars, scVars, tbVars>>
  \/ DispatchStrokeStart /\ UNCHANGED <<cfgVars, dfVars, fxVars, hashVars, igVars, appVars, wpVars, scVars, tbVars>>
  \/ DispatchStrokeEnd /\ UNCHANGED <<cfgVars, dfVars, fxVars, hashVars, igVars, appVars, wpVars, scVars, tbVars>>
SpecEdit == InitEdit /\ [][NextEdit]_vars

\* painting interleaved with choosing a tool and a colour, and undo and redo
InitTool ==
  /\ config \in {ConfigWith([i \in 1..7 |-> 1])} /\ core = "loaded"
  /\ EdInit /\ DfIdle /\ FxIdle /\ HashIdle /\ IgIdle /\ AppIdle /\ WpIdle /\ ScIdle /\ TbIdle
NextTool ==
  \/ DispatchPaint /\ UNCHANGED <<cfgVars, dfVars, fxVars, hashVars, igVars, appVars, wpVars, scVars, tbVars>>
  \/ DispatchSetTool /\ UNCHANGED <<cfgVars, dfVars, fxVars, hashVars, igVars, appVars, wpVars, scVars, tbVars>>
  \/ DispatchSetColor /\ UNCHANGED <<cfgVars, dfVars, fxVars, hashVars, igVars, appVars, wpVars, scVars, tbVars>>
  \/ DispatchUndo /\ UNCHANGED <<cfgVars, dfVars, fxVars, hashVars, igVars, appVars, wpVars, scVars, tbVars>>
  \/ DispatchRedo /\ UNCHANGED <<cfgVars, dfVars, fxVars, hashVars, igVars, appVars, wpVars, scVars, tbVars>>
SpecTool == InitTool /\ [][NextTool]_vars

\* the editor with a full history, every kind of action dispatched, until one
\* more state has been created
HistoryCap == MAX_UNDO + 2
InitHistory ==
  /\ config \in {ConfigWith([i \in 1..7 |-> 1])} /\ core = "loaded"
  /\ EdDeepInit /\ DfIdle /\ FxIdle /\ HashIdle /\ IgIdle /\ AppIdle /\ WpIdle /\ ScIdle /\ TbIdle
NextHistory ==
  \/ (\E color \in PenColors : DispatchWithin([type |-> "PAINT", row |-> 0, col |-> 0, color |-> color], HistoryCap))
       /\ UNCHANGED <<cfgVars, dfVars, fxVars, hashVars, igVars, appVars, wpVars, scVars, tbVars>>
  \/ DispatchWithin([type |-> "ERASE", row |-> 0, col |-> 0, color |-> Null], HistoryCap)
       /\ UNCHANGED <<cfgVars, dfVars, fxVars, hashVars, igVars, appVars, wpVars, scVars, tbVars>>
  \/ DispatchWithin([type |-> "SET_COLOR", color |-> PaletteColors[6].hex], HistoryCap)
       /\ UNCHANGED <<cfgVars, dfVars, fxVars, hashVars, igVars, appVars, wpVars, scVars, tbVars>>
  \/ DispatchWithin([type |-> "SET_TOOL", tool |-> "select"], HistoryCap)
       /\ UNCHANGED <<cfgVars, dfVars, fxVars, hashVars, igVars, appVars, wpVars, scVars, tbVars>>
  \/ DispatchWithin([type |-> "SELECT_CELL", row |-> 0, col |-> 0, additive |-> FALSE], HistoryCap)
       /\ UNCHANGED <<cfgVars, dfVars, fxVars, hashVars, igVars, appVars, wpVars, scVars, tbVars>>
  \/ DispatchWithin([type |-> "SELECT_RECT", startRow |-> 0, startCol |-> EdCells - 1, endRow |-> 0, endCol |-> 0, additive |-> TRUE], HistoryCap)
       /\ UNCHANGED <<cfgVars, dfVars, fxVars, hashVars, igVars, appVars, wpVars, scVars, tbVars>>
  \/ DispatchWithin([type |-> "CLEAR_SELECTION"], HistoryCap)
       /\ UNCHANGED <<cfgVars, dfVars, fxVars, hashVars, igVars, appVars, wpVars, scVars, tbVars>>
  \/ DispatchWithin([type |-> "RECOLOR_SELECTION", color |-> PaletteColors[6].hex], HistoryCap)
       /\ UNCHANGED <<cfgVars, dfVars, fxVars, hashVars, igVars, appVars, wpVars, scVars, tbVars>>
  \/ DispatchWithin([type |-> "DELETE_SELECTION"], HistoryCap)
       /\ UNCHANGED <<cfgVars, dfVars, fxVars, hashVars, igVars, appVars, wpVars, scVars, tbVars>>
  \/ DispatchWithin([type |-> "RESIZE", width |-> 1, height |-> 2], HistoryCap)
       /\ UNCHANGED <<cfgVars, dfVars, fxVars, hashVars, igVars, appVars, wpVars, scVars, tbVars>>
  \/ DispatchWithin([type |-> "LOAD_GRID", grid |-> createGrid(1, 1)], HistoryCap)
       /\ UNCHANGED <<cfgVars, dfVars, fxVars, hashVars, igVars, appVars, wpVars, scVars, tbVars>>
  \/ DispatchWithin([type |-> "ROTATE_GRID", direction |-> "cw"], HistoryCap)
       /\ UNCHANGED <<cfgVars, dfVars, fxVars, hashVars, igVars, appVars, wpVars, scVars, tbVars>>
  \/ DispatchWithin([type |-> "STROKE_START"], HistoryCap)
       /\ UNCHANGED <<cfgVars, dfVars, fxVars, hashVars, igVars, appVars, wpVars, scVars, tbVars>>
  \/ DispatchWithin([type |-> "STROKE_END"], HistoryCap)
       /\ UNCHANGED <<cfgVars, dfVars, fxVars, hashVars, igVars, appVars, wpVars, scVars, tbVars>>
  \/ DispatchWithin([type |-> "UNDO"], HistoryCap)
       /\ UNCHANGED <<cfgVars, dfVars, fxVars, hashVars, igVars, appVars, wpVars, scVars, tbVars>>
  \/ DispatchWithin([type |-> "REDO"], HistoryCap)
       /\ UNCHANGED <<cfgVars, dfVars, fxVars, hashVars, igVars, appVars, wpVars, scVars, tbVars>>
SpecHistory == InitHistory /\ [][NextHistory]_vars

\* loading the module under any palette, then imageToGrid on small inputs
CfgMaxPixels == 1
CfgMaxSide == 2
InitConfig ==
  /\ config \in AnyConfigs /\ core = "unloaded"
  /\ IgInitWith(CfgMaxPixels, CfgMaxSide) /\ DfIdle /\ FxIdle /\ HashIdle /\ EdIdle /\ AppIdle /\ WpIdle /\ ScIdle /\ TbIdle
NextConfig ==
  \/ LoadCore /\ UNCHANGED <<dfVars, fxVars, hashVars, igVars, edVars, appVars, wpVars, scVars, tbVars>>
  \/ core = "loaded" /\ IgCall /\ UNCHANGED <<cfgVars, dfVars, fxVars, hashVars, edVars, appVars, wpVars, scVars, tbVars>>
  \/ IgSample /\ UNCHANGED <<cfgVars, dfVars, fxVars, hashVars, edVars, appVars, wpVars, scVars, tbVars>>
  \/ IgClassify /\ UNCHANGED <<cfgVars, dfVars, fxVars, hashVars, edVars, appVars, wpVars, scVars, tbVars>>
  \/ IgBuild /\ UNCHANGED <<cfgVars, dfVars, fxVars, hashVars, edVars, appVars, wpVars, scVars, tbVars>>
  \/ IgReturn /\ UNCHANGED <<cfgVars, dfVars, fxVars, hashVars, edVars, appVars, wpVars, scVars, tbVars>>
  \/ IgUpscale /\ UNCHANGED <<cfgVars, dfVars, fxVars, hashVars, edVars, appVars, wpVars, scVars, tbVars>>
SpecConfig == InitConfig /\ [][NextConfig]_vars

\* the App's image handlers, each running imageToGrid and fixGridLimits to
\* completion before the next
InitApp ==
  /\ config \in {ConfigWith([i \in 1..7 |-> 1])} /\ core = "loaded"
  /\ AppInit /\ EdInit /\ DfIdle /\ FxIdle /\ HashIdle /\ IgIdle /\ WpIdle /\ ScIdle /\ TbIdle
NextApp ==
  \/ handleImageUpload /\ UNCHANGED <<cfgVars, dfVars, hashVars, wpVars, scVars, tbVars>>
  \/ handleResolutionChange /\ UNCHANGED <<cfgVars, dfVars, hashVars, wpVars, scVars, tbVars>>
  \/ handleRenderOptionsChange /\ UNCHANGED <<cfgVars, dfVars, hashVars, wpVars, scVars, tbVars>>
  \/ handleToggleLimits /\ UNCHANGED <<cfgVars, dfVars, hashVars, wpVars, scVars, tbVars>>
  \/ AppSynthesized /\ UNCHANGED <<cfgVars, dfVars, hashVars, wpVars, scVars, tbVars>>
  \/ AppDispatch /\ UNCHANGED <<cfgVars, dfVars, hashVars, wpVars, scVars, tbVars>>
  \/ appPc = "synth" /\ IgCall /\ UNCHANGED <<cfgVars, dfVars, fxVars, hashVars, edVars, appVars, wpVars, scVars, tbVars>>
  \/ IgSample /\ UNCHANGED <<cfgVars, dfVars, fxVars, hashVars, edVars, appVars, wpVars, scVars, tbVars>>
  \/ IgClassify /\ UNCHANGED <<cfgVars, dfVars, fxVars, hashVars, edVars, appVars, wpVars, scVars, tbVars>>
  \/ IgBuild /\ UNCHANGED <<cfgVars, dfVars, fxVars, hashVars, edVars, appVars, wpVars, scVars, tbVars>>
  \/ IgReturn /\ UNCHANGED <<cfgVars, dfVars, fxVars, hashVars, edVars, appVars, wpVars, scVars, tbVars>>
  \/ IgUpscale /\ UNCHANGED <<cfgVars, dfVars, fxVars, hashVars, edVars, appVars, wpVars, scVars, tbVars>>
  \/ appPc = "limit" /\ FixStart /\ UNCHANGED <<cfgVars, dfVars, hashVars, igVars, edVars, appVars, wpVars, scVars, tbVars>>
  \/ FixColor /\ UNCHANGED <<cfgVars, dfVars, hashVars, igVars, edVars, appVars, wpVars, scVars, tbVars>>
  \/ FixCell /\ UNCHANGED <<cfgVars, dfVars, hashVars, igVars, edVars, appVars, wpVars, scVars, tbVars>>
  \/ FixReturn /\ UNCHANGED <<cfgVars, dfVars, hashVars, igVars, edVars, appVars, wpVars, scVars, tbVars>>
SpecApp == InitApp /\ [][NextApp]_vars

\* isWaterPixel on every pixel made of the probe channels
InitWater ==
  /\ config \in {ConfigWith([i \in 1..7 |-> 1])} /\ core = "loaded"
  /\ WpInit /\ DfIdle /\ FxIdle /\ HashIdle /\ IgIdle /\ EdIdle /\ AppIdle /\ ScIdle /\ TbIdle
NextWater ==
  \/ CallIsWaterPixel /\ UNCHANGED <<cfgVars, dfVars, fxVars, hashVars, igVars, edVars, appVars, scVars, tbVars>>
  \/ CallIsWaterPixelAgain /\ UNCHANGED <<cfgVars, dfVars, fxVars, hashVars, igVars, edVars, appVars, scVars, tbVars>>
SpecWater == InitWater /\ [][NextWater]_vars

\* fixGridLimits on one-row grids long enough for two over-limit colours
InitOrder ==
  /\ config \in ValidConfigs /\ core = "loaded"
  /\ FxOrderInit /\ DfIdle /\ HashIdle /\ IgIdle /\ EdIdle /\ AppIdle /\ WpIdle /\ ScIdle /\ TbIdle
NextOrder ==
  \/ FixStart /\ UNCHANGED <<cfgVars, dfVars, hashVars, igVars, edVars, appVars, wpVars, scVars, tbVars>>
  \/ FixColor /\ UNCHANGED <<cfgVars, dfVars, hashVars, igVars, edVars, appVars, wpVars, scVars, tbVars>>
  \/ FixCell /\ UNCHANGED <<cfgVars, dfVars, hashVars, igVars, edVars, appVars, wpVars, scVars, tbVars>>
  \/ FixReturn /\ UNCHANGED <<cfgVars, dfVars, hashVars, igVars, edVars, appVars, wpVars, scVars, tbVars>>
SpecOrder == InitOrder /\ [][NextOrder]_vars

\* fixGridLimits applied to a grid and then to the grid it returned
InitAgain ==
  /\ config \in ValidConfigs /\ core = "loaded"
  /\ FxAgainInit /\ DfIdle /\ HashIdle /\ IgIdle /\ EdIdle /\ AppIdle /\ WpIdle /\ ScIdle /\ TbIdle
NextAgain ==
  \/ FixStart /\ UNCHANGED <<cfgVars, dfVars, hashVars, igVars, edVars, appVars, wpVars, scVars, tbVars>>
  \/ FixColor /\ UNCHANGED <<cfgVars, dfVars, hashVars, igVars, edVars, appVars, wpVars, scVars, tbVars>>
  \/ FixCell /\ UNCHANGED <<cfgVars, dfVars, hashVars, igVars, edVars, appVars, wpVars, scVars, tbVars>>
  \/ FixReturn /\ UNCHANGED <<cfgVars, dfVars, hashVars, igVars, edVars, appVars, wpVars, scVars, tbVars>>
  \/ FixAgain /\ UNCHANGED <<cfgVars, dfVars, hashVars, igVars, edVars, appVars, wpVars, scVars, tbVars>>
SpecAgain == InitAgain /\ [][NextAgain]_vars

\* the priority comparison on pairs of positions
InitScore ==
  /\ config \in {ConfigWith([i \in 1..7 |-> 1])} /\ core = "loaded"
  /\ ScInit /\ TbIdle /\ DfIdle /\ FxIdle /\ HashIdle /\ IgIdle /\ EdIdle /\ AppIdle /\ WpIdle
NextScore ==
  \/ CallScore /\ UNCHANGED <<cfgVars, dfVars, fxVars, hashVars, igVars, edVars, appVars, wpVars, tbVars>>
SpecScore == InitScore /\ [][NextScore]_vars

\* the tab handlers and the decodes they start, in every order
InitTabs ==
  /\ config \in {ConfigWith([i \in 1..7 |-> 1])} /\ core = "loaded"
  /\ TbInit /\ AppIdle /\ DfIdle /\ FxIdle /\ HashIdle /\ IgIdle /\ WpIdle /\ ScIdle
NextTabs ==
  \/ handleSelectTab /\ UNCHANGED <<cfgVars, dfVars, fxVars, hashVars, igVars, wpVars, scVars>>
  \/ handleNewTab /\ UNCHANGED <<cfgVars, dfVars, fxVars, hashVars, igVars, wpVars, scVars>>
  \/ handleCloseTab /\ UNCHANGED <<cfgVars, dfVars, fxVars, hashVars, igVars, wpVars, scVars>>
  \/ handleRenameTab /\ UNCHANGED <<cfgVars, dfVars, fxVars, hashVars, igVars, wpVars, scVars>>
  \/ DecodeSettled /\ UNCHANGED <<cfgVars, dfVars, fxVars, hashVars, igVars, wpVars, scVars>>
SpecTabs == InitTabs /\ [][NextTabs]_vars

\* ---- properties of fixGridLimits ------------------------------------------
\* the cells of a grid, as pairs <<row, col>> counted from 0
cellsOf(g) == { rc \in (0..(gridH(g) - 1)) \X (0..(gridW(g) - 1)) : TRUE }

\* the number of cells of g that hold hex
usage(g, hex) == Cardinality({ rc \in cellsOf(g) : cellAt(g, rc[1], rc[2]) = hex })

sameShape(a, b) ==
  /\ Len(a) = Len(b)
  /\ \A r \in 1..Len(a) : Len(a[r]) = Len(b[r])

\* the call has returned
fxDone == fxPc = "done"

\* the call has returned a grid that differs from its argument
fxChanged == fxDone /\ heap[result] /= heap[grid]

\* the colours a cell of colour hex may be reassigned to: the other gradient
\* stops for a water colour, the other land colours for a land colour
feasibleTargets(hex) ==
  IF hex \in WATER_HEXES THEN WATER_HEXES \ {hex} ELSE LAND_HEXES \ {hex}

\* C1: the grid fixGridLimits returns has the dimensions of its argument, and
\* a cell of it is empty exactly when the same cell of the argument is empty:
\* no dot is deleted and none is created.
C1_Conservation ==
  fxDone =>
    /\ sameShape(heap[result], heap[grid])
    /\ \A rc \in cellsOf(heap[grid]) :
         Falsy(cellAt(heap[result], rc[1], rc[2])) <=> Falsy(cellAt(heap[grid], rc[1], rc[2]))

\* C1 witness: a returned grid that differs from the argument, which has an
\* empty cell beside the cell that was reassigned
C1_Witness ==
  /\ fxChanged
  /\ \E rc \in cellsOf(heap[grid]) : cellAt(heap[grid], rc[1], rc[2]) = Null

\* C2 as claimed: after the call, every colour that had a feasible
\* reassignment target with non-zero remaining budget when the call began
\* holds at most its configured quantity.
C2_Original ==
  fxDone =>
    \A i \in DOMAIN config :
      LET hex == config[i].hex
      IN  (\E t \in feasibleTargets(hex) : remainingOf(colorPositions)[t] > 0)
            => usage(heap[result], hex) <= limits(hex)

\* C2, amended: after the call, every colour that still has a feasible
\* reassignment target with non-zero remaining budget holds at most its
\* configured quantity.
C2_Amended ==
  fxDone =>
    \A i \in DOMAIN config :
      LET hex == config[i].hex
      IN  (\E t \in feasibleTargets(hex) : remaining[t] > 0)
            => usage(heap[result], hex) <= limits(hex)

\* C2 witness: a colour that was over its limit, was brought down to it, and
\* still has a target with budget left
C2_Witness ==
  /\ fxDone
  /\ \E i \in DOMAIN config :
       LET hex == config[i].hex
       IN  /\ usage(heap[grid], hex) > limits(hex)
           /\ usage(heap[result], hex) = limits(hex)
           /\ limits(hex) > 0
           /\ \E t \in feasibleTargets(hex) : remaining[t] > 0

\* C3: a cell that holds a water colour in the argument holds a water colour
\* in the returned grid, and a cell that holds a land colour holds a land colour.
C3_ClassPreserved ==
  fxDone =>
    \A rc \in cellsOf(heap[grid]) :
      LET before == cellAt(heap[grid], rc[1], rc[2])
          after  == cellAt(heap[result], rc[1], rc[2])
      IN  /\ before \in WATER_HEXES => after \in WATER_HEXES
          /\ before \in LAND_HEXES => after \in LAND_HEXES

\* C3 witness: a returned grid in which a water cell and a land cell both
\* changed colour
C3_Witness ==
  /\ fxDone
  /\ \E a, b \in cellsOf(heap[grid]) :
       /\ cellAt(heap[grid], a[1], a[2]) \in WATER_HEXES
       /\ cellAt(heap[result], a[1], a[2]) /= cellAt(heap[grid], a[1], a[2])
       /\ cellAt(heap[grid], b[1], b[2]) \in LAND_HEXES
       /\ cellAt(heap[result], b[1], b[2]) /= cellAt(heap[grid], b[1], b[2])

\* C4: no step of fixGridLimits changes the array it was passed: the argument
\* holds after every step what it held before it.
C4_InputNotMutated ==
  [][grid' = grid /\ heap'[grid] = heap[grid]]_vars

\* C4 witness: a call that reassigned a cell, in the returned grid only
C4_Witness ==
  /\ fxChanged
  /\ result /= grid

\* ---- properties of computeDistanceField -----------------------------------
\* the cells whose mask value is the target
dfSources == { i \in DOMAIN mask : mask[i] = fromTrue }

\* the least number of 4-connected unit steps between two cells of the grid
dfSteps(i, j) ==
  Abs((i % dfW) - (j % dfW)) + Abs((i \div dfW) - (j \div dfW))

\* C6: computeDistanceField returns for each cell the least number of
\* 4-connected unit steps to a cell whose mask value is the target (0 at such
\* a cell), and Infinity at a cell only when no cell has the target value, in
\* which case every cell is Infinity.
C6_DistanceField ==
  dfPc = "done" =>
    \A i \in DOMAIN mask :
      IF dfSources = {}
      THEN dist[i] = Infinity
      ELSE /\ dist[i] /= Infinity
           /\ \E j \in dfSources : dist[i] = dfSteps(i, j)
           /\ \A j \in dfSources : dist[i] <= dfSteps(i, j)

\* C6 witness: a finished call on a mask with at least two rows and two
\* columns and two sources, where some cell is three steps from the nearest
C6_Witness ==
  /\ dfPc = "done"
  /\ dfW >= 2 /\ dfH >= 2
  /\ Cardinality(dfSources) >= 2
  /\ \E i \in DOMAIN mask : dist[i] = 3

\* ---- properties of hash2d and pickWaterGradient ---------------------------
\* C9: for all integer coordinates the value of hash2d lies in [0, 1): it is
\* at least 0 and strictly less than 1 (hashOut is the value times 0x7fffffff).
C9_HashHalfOpen ==
  hashOut /= Null => (hashOut >= 0 /\ hashOut < HashDen)

\* the stop the stated rule picks for t = tn / td at (x, y): scaled = 3t,
\* lower = floor(scaled), upper = min(3, lower + 1), frac = scaled - lower,
\* upper when hash2d(x, y) < frac and lower otherwise
statedRulePick(tn, td, x, y) ==
  LET sn    == 3 * tn
      lower == sn \div td
      upper == Min2(3, lower + 1)
      fn    == sn - lower * td
  IN  IF HashLess(hash2dNum(x, y), fn, td) THEN upper ELSE lower

\* C8: for every t in [0, 1] and every cell, pickWaterGradient returns the
\* stop the stated rule picks; t = 1 gives the lightest stop (index 3) and
\* t = 0 the darkest (index 0).
C8_StatedRule ==
  pickOut /= Null =>
    /\ pickOut = statedRulePick(hashT, TDen, hashX, hashY)
    /\ hashT = TDen => pickOut = 3
    /\ hashT = 0 => pickOut = 0

\* ---- properties of imageToGrid --------------------------------------------
igDone == igPc = "done"

\* C5: for every grid size and every detail resolution (absent, or up to the
\* longer side) imageToGrid returns gridHeight rows of gridWidth cells each, on
\* the direct path and on the reduce-then-upscale path.
C5_Dimensions ==
  igDone =>
    /\ Len(igOut) = gridHeight
    /\ \A r \in 1..Len(igOut) : Len(igOut[r]) = gridWidth

\* C5 witness: a call that took the reduce path with a sampling size smaller
\* than the grid on both sides of a non-square grid has returned
C5_Witness ==
  /\ igDone /\ igCalls = 2
  /\ gridWidth /= gridHeight
  /\ sw < gridWidth /\ sh < gridHeight

\* C7: the returned grid has no empty cell; a cell classified water holds one
\* of the four gradient colours and a cell classified land holds a land
\* colour, so a grid whose cells are all water holds no land colour.
C7_CellColors ==
  /\ igPc = "return" =>
       \A r \in 1..igH, c \in 1..igW :
         IF igIsWater[(r - 1) * igW + (c - 1)]
         THEN igGrid[r][c] \in Range(WATER_GRADIENT) \ {Undefined}
         ELSE igGrid[r][c] \in LAND_HEXES
  /\ igDone =>
       /\ \A r \in 1..gridHeight, c \in 1..gridWidth :
            /\ ~Falsy(igOut[r][c])
            /\ igOut[r][c] \in WATER_HEXES \cup LAND_HEXES
       /\ (\A i \in DOMAIN igIsWater : igIsWater[i]) =>
            \A r \in 1..gridHeight, c \in 1..gridWidth : igOut[r][c] \notin LAND_HEXES

\* C7 witness: a returned grid that holds a water cell and a land cell
C7_Witness ==
  /\ igDone
  /\ \E i, j \in DOMAIN igIsWater : igIsWater[i] /\ ~igIsWater[j]
  /\ \E r \in 1..gridHeight, c \in 1..gridWidth : igOut[r][c] \in LAND_HEXES
  /\ \E r \in 1..gridHeight, c \in 1..gridWidth : igOut[r][c] \in WATER_HEXES

\* ---- properties of the construction of the colour sets --------------------
\* the four gradient stops are defined and there is a land colour
paletteComplete ==
  /\ \A k \in 1..4 : WATER_GRADIENT[k] /= Undefined
  /\ LAND_PALETTE /= <<>>

\* C10: a palette that lacks one of the four water names or has no land
\* colour is rejected when the module is loaded, and no imageToGrid call runs
\* with an undefined gradient stop or an empty land palette.
C10_RejectedAtConstruction ==
  /\ core = "loaded" => paletteComplete
  /\ igPc \notin {"off", "idle"} => paletteComplete

\* ---- properties of the normalisation --------------------------------------
\* landNorm and edgeNorm of cell i lie in [0, 1], and landNorm is 1 where the
\* land distance is unreached (numerators over the divisors mL and mE)
normsInUnit(dl, de, mL, mE) ==
  \A i \in DOMAIN dl :
    /\ dl[i] = Infinity => landNormNum(dl, mL, i) = mL
    /\ 0 <= landNormNum(dl, mL, i) /\ landNormNum(dl, mL, i) <= mL
    /\ 0 <= edgeNormNum(de, i) /\ edgeNormNum(de, i) <= mE

\* C11: in imageToGrid and in fixGridLimits maxLandDist and maxEdgeDist are at
\* least 1 for every grid, an unreached cell has landNorm 1, and landNorm and
\* edgeNorm of every cell lie in [0, 1].
C11_Normalised ==
  /\ maxLandDist >= 1 /\ maxEdgeDist >= 1
  /\ igMaxLandDist >= 1 /\ igMaxEdgeDist >= 1
  /\ fxPc \in {"color", "cell", "done"} =>
       normsInUnit(distToLand, distToEdge, maxLandDist, maxEdgeDist)
  /\ igPc \in {"build", "return", "upscale", "done"} =>
       normsInUnit(igDistToLand, igDistToEdge, igMaxLandDist, igMaxEdgeDist)

\* C11 witness: imageToGrid has returned a 1x1 grid whose cell is water: no
\* land distance is reached and the edge distance is 0
C11_Witness ==
  /\ igDone /\ igW = 1 /\ igH = 1
  /\ igIsWater[0] /\ igDistToLand[0] = Infinity /\ igDistToEdge[0] = 0

\* ---- properties of the undo history ---------------------------------------
\* C12: after STROKE_START, one or more PAINT/ERASE of which at least one
\* changed the grid, and STROKE_END, the history holds exactly one entry more
\* (the present at STROKE_START, after the entries kept of the past at
\* STROKE_START), and one UNDO dispatched next restores the grid that was
\* present at STROKE_START.
C12_StrokeBatching ==
  /\ (stroke.phase = "ended" /\ stroke.changed) =>
       /\ undoable.past = Append(sliceLast(stroke.past, MAX_UNDO - 1), stroke.present[1])
       /\ undoable.strokeAnchor = <<>>
  /\ (stroke.phase = "undone" /\ stroke.changed) =>
       /\ undoable.present.grid = stroke.present[1].grid
       /\ undoable.past = sliceLast(stroke.past, MAX_UNDO - 1)

\* C12 witness: a stroke of two PAINT/ERASE actions that changed the grid has
\* ended on a history that was not empty at STROKE_START, and was undone
C12_Witness ==
  /\ stroke.phase = "undone" /\ stroke.changed
  /\ Len(stroke.past) >= 1
  /\ Len(undoable.future) = 1
  /\ undoable.future[1].id >= stroke.present[1].id + 2


\* ---- properties of the App's handlers --------------------------------------

\* a handler that makes its grid from the imported image has just loaded it
imageGridLoaded ==
  /\ appPc = "idle" /\ lastAction = "LOAD_GRID"
  /\ appHandler \in {"upload", "resolution", "options"}

\* C13: while the limit toggle is on, the grid an image handler (upload,
\* resolution slider, render option) loads is the grid a fixGridLimits call of
\* that handler returned.
C13_LimitedBeforeLoad ==
  (imageGridLoaded /\ limitPieces) =>
     /\ fxPc = "done"
     /\ undoable.present.grid = heap[result]

\* ---- properties of isWaterPixel ----------------------------------------------

\* an / ad < bn / bd for positive denominators
fracLess(an, ad, bn, bd) == an * bd < bn * ad

\* the three rules on the hue (degrees), saturation and lightness of (r, g, b)
darkRule(c) == fracLess(c.ln, c.ld, 15, 100)
blueRule(c) ==
  /\ ~fracLess(c.hn, c.hd, 170, 1)
  /\ ~fracLess(260, 1, c.hn, c.hd)
  /\ fracLess(150 * c.ld + 800 * Max2(0, c.ln - c.ld \div 2), 1000 * c.ld, c.sn, c.sd)
tintRule(c, r, b) ==
  /\ fracLess(c.ln, c.ld, 45, 100)
  /\ fracLess(c.sn, c.sd, 2, 10)
  /\ b > r

\* C14: isWaterPixel(r, g, b) returns true exactly when one of the three rules
\* holds on the HSL of (r, g, b); a second call with the same channels returns
\* the same; (0,0,0) and (10,10,40) are water and (230,225,210) is land.
C14_WaterRules ==
  wpOut /= <<>> =>
    LET c == rgbToHsl(wpR, wpG, wpB, 1)
    IN  /\ wpOut[1] = (darkRule(c) \/ blueRule(c) \/ tintRule(c, wpR, wpB))
        /\ wpPrev /= <<>> => wpPrev[1] = wpOut[1]
        /\ <<wpR, wpG, wpB>> \in { <<0, 0, 0>>, <<10, 10, 40>> } => wpOut[1]
        /\ <<wpR, wpG, wpB>> = <<230, 225, 210>> => ~wpOut[1]

\* the sand pixel was classified twice, as land
C14_Witness ==
  /\ wpPrev /= <<>> /\ <<wpR, wpG, wpB>> = <<230, 225, 210>> /\ ~wpOut[1]

\* ---- properties of downsampleToBuffer ---------------------------------------

\* the tiles along one axis that hold source coordinate x: tile i runs from
\* floor(i * srcDim / gridDim) up to, not including, floor((i + 1) * srcDim / gridDim)
tilesHolding(x, srcDim, gridDim) ==
  { i \in 0..(gridDim - 1) :
      /\ (i * srcDim) \div gridDim <= x
      /\ x < ((i + 1) * srcDim) \div gridDim }

\* the cells whose tile holds source pixel p
cellsHolding(p) ==
  { gy * igW + gx : gx \in tilesHolding(p % imgW, imgW, igW),
                    gy \in tilesHolding(p \div imgW, imgH, igH) }

\* channel c summed over the source pixels that cell idx holds (c = 4: their number)
heldSum(idx, c) ==
  sumSeq([k \in 1..(imgW * imgH) |->
            IF idx \in cellsHolding(k - 1)
            THEN (IF c = 4 THEN 1 ELSE imgData[k - 1][c])
            ELSE 0])

\* downsampleToBuffer has filled the buffer
igSampled == igPc \in {"classify", "build", "return", "upscale", "done"}

\* C15: every source pixel lies in the tile of exactly one cell, each cell's
\* average is the sum of the pixels its tile holds over their number, and a
\* cell whose tile holds no pixel gets 0 in the three channels.
C15_TilesPartition ==
  igSampled =>
    /\ \A p \in 0..(imgW * imgH - 1) : Cardinality(cellsHolding(p)) = 1
    /\ \A idx \in DOMAIN igBuf :
         IF heldSum(idx, 4) = 0
         THEN igBuf[idx][1] = 0 /\ igBuf[idx][2] = 0 /\ igBuf[idx][3] = 0
         ELSE /\ igBuf[idx][4] = heldSum(idx, 4)
              /\ \A c \in 1..3 : igBuf[idx][c] = heldSum(idx, c)

\* a buffer with a cell averaging two pixels next to a cell of an empty tile
C15_Witness ==
  /\ igSampled
  /\ \E i \in DOMAIN igBuf : heldSum(i, 4) = 0
  /\ \E i \in DOMAIN igBuf : igBuf[i][4] = 2

\* ---- the order fixGridLimits takes the over-limit colours in ----------------

\* the colours of the palette that g uses more often than their limit
overLimitIn(g) ==
  { hex \in { config[i].hex : i \in DOMAIN config } : usage(g, hex) > limits(hex) }

\* usage(a) / limit(a) > usage(b) / limit(b) in g, a ratio over 0 being infinite
moreConstrained(g, a, b) ==
  usage(g, a) * limits(b) > usage(g, b) * limits(a)

\* a cell that held hex in the argument holds another colour in the copy
reassignedFrom(hex) ==
  \E rc \in cellsOf(heap[grid]) :
    /\ cellAt(heap[grid], rc[1], rc[2]) = hex
    /\ cellAt(heap[newGrid], rc[1], rc[2]) /= hex

\* the loop over the over-limit colours has finished with hex
turnOver(hex) ==
  \E k \in 1..Len(overColors) : overColors[k] = hex /\ k < oc

\* C16: when a and b are over their limits and usage(a)/limit(a) exceeds
\* usage(b)/limit(b) (a limit of 0 included), no cell of b is reassigned until
\* the loop has finished with a.
C16_MostConstrainedFirst ==
  (fxPc \in {"color", "cell", "done"} /\ newGrid /= Null) =>
    \A a \in overLimitIn(heap[grid]), b \in overLimitIn(heap[grid]) :
      (moreConstrained(heap[grid], a, b) /\ reassignedFrom(b)) => turnOver(a)

\* both colours have a positive limit, the less constrained one appears first
\* in the grid, and cells of both were reassigned
C16_Witness ==
  /\ fxDone /\ Len(overColors) = 2
  /\ limits(overColors[1]) > 0 /\ limits(overColors[2]) > 0
  /\ moreConstrained(heap[grid], overColors[1], overColors[2])
  /\ cellAt(heap[grid], 0, 0) = overColors[2]
  /\ reassignedFrom(overColors[1]) /\ reassignedFrom(overColors[2])

\* ---- the cells that keep an over-limit colour -------------------------------

\* the priority score of position idx of colour hex in the argument grid
scoreOf(hex, idx) ==
  priorityOf(hex, idx, gridW(heap[grid]), distToLand, distToEdge, maxLandDist, maxEdgeDist)

\* the positions (flat indices) of hex in the argument grid
positionsIn(hex) ==
  { i \in 0..(gridW(heap[grid]) * gridH(heap[grid]) - 1) : cellAtIdx(heap[grid], i) = hex }

\* the number of positions of hex ranked before idx: those with a higher
\* score, and those with the same score that come earlier in the grid
rankOf(hex, idx) ==
  Cardinality({ j \in positionsIn(hex) :
                  \/ priorityGreater(scoreOf(hex, j), scoreOf(hex, idx))
                  \/ (scoreOf(hex, j) = scoreOf(hex, idx) /\ j < idx) })

\* C17: in the grid fixGridLimits returns, the limit(hex) positions of an
\* over-limit colour hex with the highest priority scores still hold hex, and
\* every position of hex that holds another colour is ranked below them.
C17_TopRankedKeep ==
  (fxDone /\ overColors /= <<>>) =>
    \A k \in 1..Len(overColors) :
      LET hex == overColors[k]
      IN  \A idx \in positionsIn(hex) :
            /\ rankOf(hex, idx) < limits(hex) => cellAtIdx(heap[result], idx) = hex
            /\ cellAtIdx(heap[result], idx) /= hex => rankOf(hex, idx) >= limits(hex)

\* a colour kept its cell at a later position while an earlier one was reassigned
C17_Witness ==
  /\ fxDone /\ overColors /= <<>>
  /\ \E k \in 1..Len(overColors) :
       \E i \in positionsIn(overColors[k]), j \in positionsIn(overColors[k]) :
         /\ i < j
         /\ cellAtIdx(heap[result], i) /= overColors[k]
         /\ cellAtIdx(heap[result], j) = overColors[k]
         /\ rankOf(overColors[k], j) < limits(overColors[k])

\* ---- the colour an excess water cell receives -------------------------------

\* fixGridLimits is about to reassign an excess cell of a water / land colour
atWaterExcess == fxPc = "cell" /\ excess /= <<>> /\ overColors[oc] \in WATER_HEXES
atLandExcess == fxPc = "cell" /\ excess /= <<>> /\ overColors[oc] \notin WATER_HEXES

\* the gradient stop for t = (1 - landNorm) * 0.7 + (1 - edgeNorm) * 0.3 at idx
idealStop(idx) ==
  LET w  == gridW(heap[grid])
      ln == landNormNum(distToLand, maxLandDist, idx)
      tn == 7 * (maxLandDist - ln) * maxEdgeDist
              + 3 * (maxEdgeDist - distToEdge[idx]) * maxLandDist
  IN  WATER_GRADIENT[pickWaterGradientIndex(tn, 10 * maxLandDist * maxEdgeDist,
                                            idx % w, idx \div w) + 1]

\* the stops black, dark blue, turquoise, light blue that come into question
\* for a cell of colour hex: not hex, budget left
openStops(hex) ==
  SelectSeq(<< colorByName("black"), colorByName("dark blue"),
               colorByName("turquoise"), colorByName("light blue") >>,
            LAMBDA ch : ch /= hex /\ remainingGet(remaining, ch) > 0)

\* the colour C18 gives the cell at idx, or Undefined when no stop is open
statedWaterPick(hex, idx) ==
  IF idealStop(idx) /= hex /\ remainingGet(remaining, idealStop(idx)) > 0
  THEN idealStop(idx)
  ELSE IF openStops(hex) /= <<>> THEN openStops(hex)[1] ELSE Undefined

\* the budgets after one unit of ch is used
budgetLess(ch) ==
  [h \in DOMAIN remaining |-> IF h = ch THEN remaining[h] - 1 ELSE remaining[h]]

\* C18: a step that reassigns an excess water cell gives it the ideal stop if
\* that is not the limited colour and has budget, else the first other stop
\* from darkest to lightest that is not the limited colour and has budget, and
\* takes one from that colour's budget; with no such stop the cell becomes
\* black and no budget changes.
C18_WaterExcess ==
  [][ atWaterExcess =>
        LET idx  == Head(excess)
            pick == statedWaterPick(overColors[oc], idx)
        IN  IF pick /= Undefined
            THEN /\ cellAtIdx(heap'[newGrid], idx) = pick
                 /\ remaining' = budgetLess(pick)
            ELSE /\ cellAtIdx(heap'[newGrid], idx) = colorByName("black")
                 /\ remaining' = remaining ]_vars

\* one call in which a cell received a stop other than its ideal one and a
\* later cell fell back to black with black's budget used up
C18_Witness ==
  /\ fxDone /\ overColors /= <<>>
  /\ overColors[1] \in WATER_HEXES
  /\ remainingGet(remaining, colorByName("black")) = 0
  /\ \E i \in positionsIn(overColors[1]), j \in positionsIn(overColors[1]) :
       /\ cellAtIdx(heap[result], i) \notin {overColors[1], idealStop(i), colorByName("black")}
       /\ cellAtIdx(heap[result], j) = colorByName("black")
       /\ usage(heap[result], colorByName("black")) > limits(colorByName("black"))

\* ---- the colour an excess land cell receives --------------------------------

\* hslDistance between the colours a and b of the palette
paletteDistance(a, b) ==
  LET entry(hex) == CHOOSE e \in Range(PALETTE_HSL) : e.hex = hex
  IN  hslDistance(entry(a), entry(b))

\* the land colours other than hex that have budget left
openLand(hex) ==
  { c \in LAND_HEXES \ {hex} : remainingGet(remaining, c) > 0 }

\* C19: a step that handles an excess land cell gives it a land colour other
\* than the limited one that has budget left and is, among those, nearest to
\* the limited colour by hslDistance, and takes one from that colour's budget;
\* when no other land colour has budget the grid and the budgets stay as they
\* are, so the cell keeps its colour.
C19_LandExcess ==
  [][ atLandExcess =>
        LET hex == overColors[oc]
            idx == Head(excess)
            now == cellAtIdx(heap'[newGrid], idx)
        IN  IF openLand(hex) /= {}
            THEN /\ now \in openLand(hex)
                 /\ \A c \in openLand(hex) :
                      paletteDistance(hex, now) <= paletteDistance(hex, c)
                 /\ remaining' = budgetLess(now)
            ELSE /\ heap' = heap
                 /\ now = hex
                 /\ remaining' = remaining ]_vars

\* one call gave a cell the nearest land colour, another cell a farther one
\* because the nearest had no budget left, and left a third cell as it was
C19_Witness ==
  /\ fxDone /\ Len(overColors) = 1 /\ overColors[1] \in LAND_HEXES
  /\ \E i, j, k \in positionsIn(overColors[1]) :
       LET ci == cellAtIdx(heap[result], i)
           cj == cellAtIdx(heap[result], j)
       IN  /\ ci \in LAND_HEXES \ {overColors[1]} /\ cj \in LAND_HEXES \ {overColors[1]}
           /\ paletteDistance(overColors[1], ci) < paletteDistance(overColors[1], cj)
           /\ cellAtIdx(heap[result], k) = overColors[1]
           /\ rankOf(overColors[1], k) >= limits(overColors[1])

\* ---- what the priority score of a water colour rewards ----------------------

\* the comparison has been made
scored == scOut /= Null

\* the main parts (the scores without the jitter), times 100 * mL * mE
mainA == scoreAt(scHex, scA.ln, scA.en, scA.row, scA.col, scScale[1], scScale[2])[1]
mainB == scoreAt(scHex, scB.ln, scB.en, scB.row, scB.col, scScale[1], scScale[2])[1]

\* |landNorm - 0.35| of a position, times 100 * maxLandDist
offBand(c) == Abs(100 * c.ln - 35 * scScale[1])

reduced == detailRes /= Undefined /\ detailRes < Max2(gridWidth, gridHeight)

\* C21: when detailRes is given and smaller than the longer side, imageToGrid
\* makes exactly one nested synthesis, at a size sw x sh with sw >= 1, sh >= 1
\* and max(sw, sh) = detailRes; the nested call takes the direct path; and
\* each output cell (r, c) equals the reduced cell (floor(r * sh / H),
\* floor(c * sw / W)), both indices lying inside the reduced grid.
C21_ReduceOnce ==
  /\ (reduced /\ igPc /= "idle") =>
       /\ igCalls = 2
       /\ sw >= 1 /\ sh >= 1 /\ Max2(sw, sh) = detailRes
       /\ igW = sw /\ igH = sh
  /\ (reduced /\ igPc \in {"upscale", "done"}) =>
       /\ Len(small) = sh
       /\ \A r \in 1..sh : Len(small[r]) = sw
  /\ (reduced /\ igDone) =>
       \A r \in 0..(gridHeight - 1), c \in 0..(gridWidth - 1) :
         LET sr == (r * sh) \div gridHeight
             sc == (c * sw) \div gridWidth
         IN  /\ sr \in 0..(sh - 1) /\ sc \in 0..(sw - 1)
             /\ igOut[r + 1][c + 1] = small[sr + 1][sc + 1]

\* C21 witness: a reduce-path call whose reduced grid has two cells of
\* different colours and whose sides differ has returned
C21_Witness ==
  /\ reduced /\ igDone
  /\ sw /= sh /\ sw * sh >= 2
  /\ \E r1, r2 \in 1..sh, c1, c2 \in 1..sw : small[r1][c1] /= small[r2][c2]
  /\ \E r1, r2 \in 1..gridHeight, c1, c2 \in 1..gridWidth : igOut[r1][c1] /= igOut[r2][c2]

\* ---- termination of the distance transform --------------------------------
queueDistinct == \A i, j \in 1..Len(queue) : queue[i] = queue[j] => i = j

\* C22: computeDistanceField terminates for every mask and grid size; during
\* the propagation every cell is enqueued at most once, so the queue never
\* holds more than W * H entries in total.
C22_Terminates ==
  /\ [](/\ queueDistinct
        /\ Len(queue) <= dfW * dfH
        /\ head <= Len(queue))
  /\ <>(dfPc = "done")

\* C22 witness: a call on a grid with one source and cells at distances 1, 2
\* and 3 from it has finished after enqueueing every cell
C22_Witness ==
  /\ dfPc = "done"
  /\ Cardinality({i \in DOMAIN mask : mask[i] = fromTrue}) = 1
  /\ Len(queue) = dfW * dfH /\ head = Len(queue)
  /\ dfW > 1 /\ dfH > 1
  /\ \E i \in DOMAIN dist : dist[i] = 3

\* ---- properties of UNDO and REDO ------------------------------------------
sameHistory(u, v) == u.past = v.past /\ u.present = v.present /\ u.future = v.future

\* C23: UNDO and REDO are inverse: from any editor state with a non-empty past
\* and no stroke in progress, UNDO followed by REDO yields the same present,
\* past and future as before; from any state with a non-empty future, REDO
\* followed by UNDO does too; UNDO with an empty past and REDO with an empty
\* future return the state unchanged.
C23_UndoRedoInverse ==
  lastAction /= "off" =>
    /\ (Len(undoable.past) > 0 /\ undoable.strokeAnchor = <<>>) =>
         sameHistory(redo(undo(undoable)), undoable)
    /\ Len(undoable.future) > 0 => sameHistory(undo(redo(undoable)), undoable)
    /\ Len(undoable.past) = 0 => undo(undoable) = undoable
    /\ Len(undoable.future) = 0 => redo(undoable) = undoable

\* C23 witness: a REDO has just been dispatched in a state that still has
\* states to undo and states to redo, each holding a different grid
C23_Witness ==
  /\ lastAction = "REDO"
  /\ Len(undoable.past) > 1 /\ Len(undoable.future) > 0
  /\ undoable.past[Len(undoable.past)].grid /= undoable.present.grid
  /\ undoable.future[1].grid /= undoable.present.grid

\* ---- budgets during fixGridLimits -----------------------------------------
\* C24: for every palette colour other than black, the number of cells holding
\* it after fixGridLimits is at most the larger of its usage before the call
\* and its configured quantity, and throughout the call the remaining budget
\* of every colour stays >= 0.
C24_BudgetsRespected ==
  /\ fxPc \notin {"off", "idle"} => \A hex \in DOMAIN remaining : remaining[hex] >= 0
  /\ fxDone =>
       \A i \in DOMAIN config :
         LET hex == config[i].hex
         IN  hex /= colorByName("black") =>
               usage(heap[result], hex) <= Max2(usage(heap[grid], hex), limits(hex))

\* C24 witness: a call has returned in which a colour other than black took
\* cells up to its quantity and the limited colour, with no budget left among
\* its targets, stays over its limit
C24_Witness ==
  /\ fxChanged
  /\ \E i, j \in DOMAIN config :
       LET t == config[i].hex
           o == config[j].hex
       IN  /\ t /= colorByName("black")
           /\ usage(heap[result], t) > usage(heap[grid], t)
           /\ usage(heap[result], t) = limits(t)
           /\ remaining[t] = 0
           /\ usage(heap[result], o) > limits(o)
           /\ usage(heap[result], o) < usage(heap[grid], o)

\* ---- the cells fixGridLimits leaves alone ---------------------------------
indicesOf(g) == 0..(gridW(g) * gridH(g) - 1)

\* the over-limit colours whose turn has begun
begun == { overColors[k] : k \in { j \in 1..Len(overColors) : j <= oc } }

\* C25: fixGridLimits changes only cells that hold an over-limit colour in
\* the input and assigns each such cell at most once (a position waiting for
\* its assignment still holds its input colour, and no position waits twice);
\* every empty cell and every cell whose colour is within its limit is
\* identical in the output, and when no colour is over its limit the returned
\* grid equals the input cell for cell.
C25_OnlyOverLimitCells ==
  /\ fxPc \in {"color", "cell"} =>
       /\ sameShape(heap[newGrid], heap[grid])
       /\ \A idx \in indicesOf(heap[grid]) :
            cellAtIdx(heap[newGrid], idx) /= cellAtIdx(heap[grid], idx) =>
              /\ cellAtIdx(heap[grid], idx) \in overLimitIn(heap[grid]) \cap begun
              /\ fxPc = "cell" => \A k \in 1..Len(excess) : excess[k] /= idx
  /\ fxPc = "cell" =>
       /\ \A j, k \in 1..Len(excess) : excess[j] = excess[k] => j = k
       /\ \A k \in 1..Len(excess) : cellAtIdx(heap[grid], excess[k]) = overColors[oc]
  /\ fxDone =>
       /\ \A idx \in indicesOf(heap[grid]) :
            cellAtIdx(heap[grid], idx) \notin overLimitIn(heap[grid]) =>
              cellAtIdx(heap[result], idx) = cellAtIdx(heap[grid], idx)
       /\ overLimitIn(heap[grid]) = {} => heap[result] = heap[grid]

\* C25 witness: a returned grid in which an over-limit cell changed while an
\* empty cell and a cell of a colour within its limit are in the grid
C25_Witness ==
  /\ fxChanged
  /\ \E i, j, k \in indicesOf(heap[grid]) :
       /\ cellAtIdx(heap[grid], i) = Null
       /\ cellAtIdx(heap[grid], j) /= Null
       /\ cellAtIdx(heap[grid], j) \notin overLimitIn(heap[grid])
       /\ cellAtIdx(heap[result], k) /= cellAtIdx(heap[grid], k)

\* ---- fixGridLimits applied twice ------------------------------------------
\* the second call, on the grid the first call returned, has returned
againDone == fxDone /\ grid /= 1

\* C26: fixGridLimits is idempotent: for every grid g,
\* fixGridLimits(fixGridLimits(g)) equals fixGridLimits(g) cell for cell,
\* including when the first pass left a land colour over its limit or pushed
\* black over its limit through the fallback.
C26_Idempotent ==
  againDone => heap[result] = heap[grid]

\* C26 witness: the second call has returned on a grid, changed by the first
\* call, that still holds a colour over its limit
C26_Witness ==
  /\ againDone
  /\ heap[grid] /= heap[1]
  /\ overLimitIn(heap[grid]) /= {}

\* ---- the length of the undo history ---------------------------------------
\* C27: after any sequence of editor actions (PAINT, ERASE, selection edits,
\* RESIZE, LOAD_GRID, ROTATE_GRID, STROKE_START, STROKE_END, UNDO, REDO) the
\* undo history holds at most MAX_UNDO states: past.length <= MAX_UNDO and
\* past.length + future.length <= MAX_UNDO.
C27_HistoryBounded ==
  lastAction /= "off" =>
    /\ Len(undoable.past) <= MAX_UNDO
    /\ Len(undoable.past) + Len(undoable.future) <= MAX_UNDO

\* C27 witness: a change was pushed on a full history, whose oldest entry,
\* the first state of the editor, was dropped to make room
C27_Witness ==
  /\ lastAction \in UNDOABLE_ACTIONS \cup {"STROKE_END"}
  /\ Len(undoable.past) = MAX_UNDO
  /\ undoable.past[1].id > 0
  /\ undoable.past[MAX_UNDO].id >= MAX_UNDO
  /\ undoable.future = <<>>

\* ---- what UNDO and REDO restore -------------------------------------------
\* C28: UNDO and REDO change only the grid and its dimensions: the active
\* tool and the active colour are the same after an UNDO or a REDO as before
\* it, for every history produced by interleaving paint actions with SET_TOOL
\* and SET_COLOR.
C28_ToolAndColorKept ==
  [][lastAction' \in {"UNDO", "REDO"} =>
       /\ undoable'.present.activeTool = undoable.present.activeTool
       /\ undoable'.present.activeColor = undoable.present.activeColor]_vars

\* ---- properties of the tabs -----------------------------------------------
\* a step that closes the only open tab
closesLastTab == Len(tabs) = 1 /\ tabs[1].id \notin { tabs'[k].id : k \in DOMAIN tabs' }

\* C29: after any sequence of tab operations (new tab, select tab, close tab,
\* rename tab) at least one tab is open and activeTabId is the id of one of
\* the open tabs; closing the last open tab leaves exactly one new 'Untitled'
\* tab that is active.
C29_ActiveTabOpen ==
  /\ [](tbPc = "on" => (Len(tabs) >= 1 /\ activeTabId \in tabIds))
  /\ [][closesLastTab =>
          /\ Len(tabs') = 1
          /\ tabs'[1].name = "Untitled"
          /\ tabs'[1].id > idsMade
          /\ activeTabId' = tabs'[1].id]_vars

\* C29 witness: every tab of the session was closed, and the tab made when the
\* last one was closed is the only tab, active and with the only saved file
C29_Witness ==
  /\ tbPc = "on"
  /\ Len(tabs) = 1 /\ tabs[1].name = "Untitled"
  /\ idsMade >= 3 /\ tabs[1].id = idsMade
  /\ activeTabId = idsMade
  /\ DOMAIN files = {idsMade}

\* ---- the source image kept across tab switches ----------------------------
\* C30: under every interleaving of tab selections with the completions of
\* the asynchronous source-image decodes they start, the imported image kept
\* for re-synthesis is either empty or the source image saved for the
\* currently active tab; a decode started for a tab that is no longer active
\* never installs its image.
C30_ImageOfActiveTab ==
  tbPc = "on" =>
    \/ importedImage = <<>>
    \/ /\ activeTabId \in DOMAIN sourceImages
       /\ importedImage = << sourceImages[activeTabId] >>

=========================================================================
